---------------------------- MODULE Spec2Model ----------------------------
(***************************************************************************)
(* Virtual filesystem of the website generator: path algebra, the          *)
(* FileSystemOperations engine and the HistoryManager built on top of it.  *)
(*                                                                         *)
(* Strings are sequences of one-character tokens, so that normalizePath,   *)
(* joinPath, dirname and isSubPath are computed character by character as  *)
(* the TypeScript computes them.  Timestamps (createdAt / updatedAt) are   *)
(* not part of the model.                                                  *)
(***************************************************************************)
EXTENDS Integers, Sequences, FiniteSets, TLC

(***************************************************************************)
(* Bounds of the model.                                                    *)
(***************************************************************************)
\* number of node ids generateId() hands out after the root's
MaxNodes == 2
\* number of node ids handed out in the specifications that keep a history
MaxHistNodes == 2
\* longest history log the history specifications build
MaxHist == 2
\* number of node ids handed out in the specification of the path spellings
MaxSpellNodes == 4
\* the clock readings new Date() returns are 0..MaxClock
MaxClock == 1
\* number of node ids handed out in the specification that fills the log
MaxFullNodes == 1
\* number of node ids handed out in the specification of the change plans
MaxPlanNodes == 1
\* longest plan.changes applied
MaxPlanLen == 2
\* number of node ids handed out in the specification of the allowed paths
MaxDiffNodes == 2
MaxDiffLog == 1
MaxSizeNodes == 2
MaxPathLen == 3
MaxZipLen == 2
MaxTimers == 3
MaxTicks == 5
MaxAllowNodes == 2

(***************************************************************************)
(* Characters.  A token stands for one character of its class.             *)
(***************************************************************************)
PATH_SEPARATOR == "/"
BACKSLASH == "\\"
\* one character of \x00-\x1f
CTRL == "^A"
\* U+007F, which the regular expression of validateFileName does not list
DEL == "^?"
\* one character of <>:"|?*
STAR == "*"
SPACE == " "
DOT == "."

IsSep(c) == c = PATH_SEPARATOR \/ c = BACKSLASH

(***************************************************************************)
(* String helpers (String.prototype methods used by path-utils.ts).        *)
(***************************************************************************)
StartsWith(s, p) == Len(s) >= Len(p) /\ SubSeq(s, 1, Len(p)) = p

\* s.lastIndexOf('/') as a 1-based position, 0 when absent (JS: -1)
LastIndexOfSep(s) ==
  LET hits == {i \in 1..Len(s) : s[i] = PATH_SEPARATOR}
  IN IF hits = {} THEN 0 ELSE CHOOSE i \in hits : \A j \in hits : j <= i

\* s.split(/[/\\]+/).filter(Boolean): the maximal runs of non-separators
RECURSIVE SplitFrom(_, _, _)
SplitFrom(s, i, cur) ==
  IF i > Len(s)
  THEN IF cur = <<>> THEN <<>> ELSE <<cur>>
  ELSE IF IsSep(s[i])
       THEN IF cur = <<>> THEN SplitFrom(s, i + 1, <<>>)
            ELSE <<cur>> \o SplitFrom(s, i + 1, <<>>)
       ELSE SplitFrom(s, i + 1, Append(cur, s[i]))

SplitSegments(s) == SplitFrom(s, 1, <<>>)

\* parts.join('/')
RECURSIVE JoinSegments(_)
JoinSegments(parts) ==
  IF parts = <<>> THEN <<>>
  ELSE IF Len(parts) = 1 THEN parts[1]
  ELSE parts[1] \o <<PATH_SEPARATOR>> \o JoinSegments(Tail(parts))

\* s.replace(/^[/\\]+|[/\\]+$/g, '')
RECURSIVE StripLeading(_)
StripLeading(s) ==
  IF s # <<>> /\ IsSep(s[1]) THEN StripLeading(Tail(s)) ELSE s

RECURSIVE StripTrailing(_)
StripTrailing(s) ==
  IF s # <<>> /\ IsSep(s[Len(s)]) THEN StripTrailing(SubSeq(s, 1, Len(s) - 1)) ELSE s

StripSeparators(s) == StripTrailing(StripLeading(s))

\* s.trim()
RECURSIVE Trim(_)
Trim(s) ==
  IF s # <<>> /\ s[1] = SPACE THEN Trim(Tail(s))
  ELSE IF s # <<>> /\ s[Len(s)] = SPACE THEN Trim(SubSeq(s, 1, Len(s) - 1))
  ELSE s

(***************************************************************************)
(* path-utils.ts                                                           *)
(***************************************************************************)
ROOT_PATH == <<PATH_SEPARATOR>>

normalizePath(path) ==
  IF path = <<>> THEN ROOT_PATH
  ELSE LET normalized == JoinSegments(SplitSegments(path))
       IN IF path[1] = PATH_SEPARATOR THEN <<PATH_SEPARATOR>> \o normalized
          ELSE normalized

\* joinPath(a, b): the two-argument calls the engine makes
joinPath(a, b) ==
  LET given == SelectSeq(<<a, b>>, LAMBDA s : s # <<>>)
      stripped == [i \in 1..Len(given) |-> StripSeparators(given[i])]
      joined == JoinSegments(SelectSeq(stripped, LAMBDA s : s # <<>>))
  IN IF joined # <<>> /\ joined[1] = PATH_SEPARATOR THEN joined
     ELSE <<PATH_SEPARATOR>> \o joined

dirname(path) ==
  LET normalized == normalizePath(path)
      lastSeparator == LastIndexOfSep(normalized)
  IN IF lastSeparator = 0 THEN ROOT_PATH
     ELSE IF lastSeparator = 1 THEN ROOT_PATH
     ELSE SubSeq(normalized, 1, lastSeparator - 1)

\* the arguments taken the other way round: is parent below child
isSubPathSwapped(parent, child) ==
  LET normalizedParent == normalizePath(parent)
      normalizedChild == normalizePath(child)
  IN IF normalizedChild = ROOT_PATH
     THEN StartsWith(normalizedParent, <<PATH_SEPARATOR>>)
     ELSE StartsWith(normalizedParent, normalizedChild \o <<PATH_SEPARATOR>>)

isSubPath(parent, child) ==
  LET normalizedParent == normalizePath(parent)
      normalizedChild == normalizePath(child)
  IN IF normalizedParent = ROOT_PATH
     THEN StartsWith(normalizedChild, <<PATH_SEPARATOR>>)
     ELSE StartsWith(normalizedChild, normalizedParent \o <<PATH_SEPARATOR>>)

\* the length ceiling of validateFileName
MAX_NAME_LENGTH == 255

\* validateFileName without its test for separators
validateFileNameNoSeparators(name) ==
  IF name = <<>> \/ Trim(name) = <<>> THEN "Empty"
  ELSE IF \E i \in 1..Len(name) : name[i] \in {STAR, CTRL} THEN "InvalidCharacter"
  ELSE IF name = <<DOT>> \/ name = <<DOT, DOT>> THEN "ReservedName"
  ELSE IF Len(name) > MAX_NAME_LENGTH THEN "TooLong"
  ELSE "ok"

\* validateFileName: "ok" or the reason the name is rejected for
validateFileName(name) ==
  IF name = <<>> \/ Trim(name) = <<>> THEN "Empty"
  ELSE IF \E i \in 1..Len(name) : IsSep(name[i]) THEN "ContainsSeparator"
  ELSE IF \E i \in 1..Len(name) : name[i] \in {STAR, CTRL} THEN "InvalidCharacter"
  ELSE IF name = <<DOT>> \/ name = <<DOT, DOT>> THEN "ReservedName"
  ELSE IF Len(name) > MAX_NAME_LENGTH THEN "TooLong"
  ELSE "ok"


(***************************************************************************)
(* Node model (types.ts).  A node map is a function from node ids to node  *)
(* records.  Ids are handed out in increasing order and a JavaScript Map   *)
(* iterates in insertion order, so the iteration order of a node map is    *)
(* the order of its ids; cloneNodes keeps that order.  A file carries an   *)
(* empty children list, a directory an empty content.                      *)
(***************************************************************************)
NULL_ID == -1
ROOT_ID == 0

isFile(node) == node.type = "file"
isDirectory(node) == node.type = "directory"

\* the root DirectoryNode createProject builds
RootNode ==
  [id |-> ROOT_ID, type |-> "directory", name |-> <<PATH_SEPARATOR>>,
   path |-> ROOT_PATH, parentId |-> NULL_ID, content |-> <<>>, size |-> 0,
   children |-> <<>>, createdAt |-> 0, updatedAt |-> 0]

\* project.nodes of a project made by createProject
InitialNodes == (ROOT_ID :> RootNode)

MinOf(S) == CHOOSE x \in S : \A y \in S : x <= y

RemoveKey(m, k) == [x \in DOMAIN m \ {k} |-> m[x]]

\* updateTimestamp(node) for every node of ids that is in the map
updateTimestamp(nodes, ids, now) ==
  [id \in DOMAIN nodes |->
     IF id \in ids THEN [nodes[id] EXCEPT !.updatedAt = now] ELSE nodes[id]]

\* a filter that keeps every id
FilterNothing(children, nodeId) == children

\* children.filter(id => id !== nodeId)
FilterOut(children, nodeId) == SelectSeq(children, LAMBDA c : c # nodeId)

(***************************************************************************)
(* FileSystemOperations.  Every operation is a function of the node map    *)
(* and its arguments and yields the node map it leaves behind together     *)
(* with the error it threw ("ok" when it returned).  The error names are   *)
(* those of the design; ErrorCode gives the code field of the              *)
(* FileSystemError thrown.  "RangeError" is the engine's stack overflow.   *)
(***************************************************************************)
ErrorCode(err) ==
  CASE err = "NameInvalid" -> "INVALID_PATH"
    [] err \in {"ParentNotFound", "NotFound", "TargetNotFound"} -> "NOT_FOUND"
    [] err = "AlreadyExists" -> "ALREADY_EXISTS"
    [] err \in {"ParentNotDirectory", "NotAFile", "RootImmutable",
                "TargetNotDirectory", "CyclicMove"} -> "INVALID_OPERATION"
    [] OTHER -> err

Threw(nodes, err) == [nodes |-> nodes, err |-> err]
Returned(nodes) == [nodes |-> nodes, err |-> "ok"]

\* the id of the first node of the map whose path is the normalized argument
getNodeByPath(nodes, path) ==
  LET normalized == normalizePath(path)
      hits == {id \in DOMAIN nodes : nodes[id].path = normalized}
  IN IF hits = {} THEN NULL_ID ELSE MinOf(hits)

createNode(nodes, newId, type, parentPath, name, content, now) ==
  IF validateFileName(name) # "ok" THEN Threw(nodes, "NameInvalid")
  ELSE LET parentId == getNodeByPath(nodes, parentPath) IN
    IF parentId = NULL_ID THEN Threw(nodes, "ParentNotFound")
    ELSE IF ~isDirectory(nodes[parentId]) THEN Threw(nodes, "ParentNotDirectory")
    ELSE LET filePath == joinPath(parentPath, name) IN
      IF getNodeByPath(nodes, filePath) # NULL_ID THEN Threw(nodes, "AlreadyExists")
      ELSE LET node == [id |-> newId, type |-> type, name |-> name,
                        path |-> filePath, parentId |-> parentId,
                        content |-> content, size |-> Len(content),
                        children |-> <<>>, createdAt |-> now, updatedAt |-> now]
               added == (newId :> node) @@ nodes
           IN Returned([added EXCEPT ![parentId].children = Append(@, newId),
                                     ![parentId].updatedAt = now])

createFile(nodes, newId, parentPath, name, content, now) ==
  createNode(nodes, newId, "file", parentPath, name, content, now)

createDirectory(nodes, newId, parentPath, name, now) ==
  createNode(nodes, newId, "directory", parentPath, name, <<>>, now)

updateFile(nodes, path, content, now) ==
  LET id == getNodeByPath(nodes, path) IN
  IF id = NULL_ID THEN Threw(nodes, "NotFound")
  ELSE IF ~isFile(nodes[id]) THEN Threw(nodes, "NotAFile")
  ELSE Returned([nodes EXCEPT ![id].content = content, ![id].size = Len(content),
                              ![id].updatedAt = now])

(***************************************************************************)
(* updateChildPaths(dir): the recursive rewrite of the descendants' paths. *)
(* depth is the number of frames the call stack still has room for; a call *)
(* made with no room left throws RangeError and leaves the paths rewritten *)
(* so far.  dir.path is read again for every child, as in the loop.        *)
(***************************************************************************)
RECURSIVE updateChildPathsFrom(_, _, _, _, _)
updateChildPathsFrom(nodes, dirId, i, depth, now) ==
  IF depth = 0 THEN Threw(nodes, "RangeError")
  ELSE IF i > Len(nodes[dirId].children) THEN Returned(nodes)
  ELSE LET childId == nodes[dirId].children[i] IN
    IF childId \notin DOMAIN nodes
    THEN updateChildPathsFrom(nodes, dirId, i + 1, depth, now)
    ELSE LET moved == [nodes EXCEPT ![childId].path =
                          joinPath(nodes[dirId].path, nodes[childId].name),
                                    ![childId].updatedAt = now]
         IN IF isDirectory(moved[childId])
            THEN LET below == updateChildPathsFrom(moved, childId, 1, depth - 1, now)
                 IN IF below.err # "ok" THEN below
                    ELSE updateChildPathsFrom(below.nodes, dirId, i + 1, depth, now)
            ELSE updateChildPathsFrom(moved, dirId, i + 1, depth, now)

updateChildPaths(nodes, dirId, depth, now) ==
  updateChildPathsFrom(nodes, dirId, 1, depth, now)

renameNode(nodes, path, newName, depth, now) ==
  IF validateFileName(newName) # "ok" THEN Threw(nodes, "NameInvalid")
  ELSE LET id == getNodeByPath(nodes, path) IN
    IF id = NULL_ID THEN Threw(nodes, "NotFound")
    ELSE IF nodes[id].parentId = NULL_ID THEN Threw(nodes, "RootImmutable")
    ELSE LET parentPath == dirname(path)
             newPath == joinPath(parentPath, newName)
             existing == getNodeByPath(nodes, newPath)
         IN IF existing # NULL_ID /\ existing # id THEN Threw(nodes, "AlreadyExists")
            ELSE LET renamed == [nodes EXCEPT ![id].name = newName, ![id].path = newPath,
                                              ![id].updatedAt = now]
                 IN IF isDirectory(renamed[id])
                    THEN updateChildPaths(renamed, id, depth, now)
                    ELSE Returned(renamed)

moveNode(nodes, sourcePath, targetDirPath, depth, now) ==
  LET id == getNodeByPath(nodes, sourcePath) IN
  IF id = NULL_ID THEN Threw(nodes, "NotFound")
  ELSE IF nodes[id].parentId = NULL_ID THEN Threw(nodes, "RootImmutable")
  ELSE LET targetId == getNodeByPath(nodes, targetDirPath) IN
    IF targetId = NULL_ID THEN Threw(nodes, "TargetNotFound")
    ELSE IF ~isDirectory(nodes[targetId]) THEN Threw(nodes, "TargetNotDirectory")
    ELSE IF isSubPath(sourcePath, targetDirPath) THEN Threw(nodes, "CyclicMove")
    ELSE LET newPath == joinPath(targetDirPath, nodes[id].name) IN
      IF getNodeByPath(nodes, newPath) # NULL_ID THEN Threw(nodes, "AlreadyExists")
      ELSE LET oldParentId == nodes[id].parentId
               detached ==
                 IF oldParentId \in DOMAIN nodes /\ isDirectory(nodes[oldParentId])
                 THEN [nodes EXCEPT ![oldParentId].children = FilterOut(@, id),
                                    ![oldParentId].updatedAt = now]
                 ELSE nodes
               repointed == [detached EXCEPT ![id].path = newPath,
                                             ![id].parentId = targetId]
               attached == [repointed EXCEPT ![targetId].children = Append(@, id)]
               stamped == updateTimestamp(attached, {id, targetId}, now)
           IN IF isDirectory(stamped[id])
              THEN updateChildPaths(stamped, id, depth, now)
              ELSE Returned(stamped)

(***************************************************************************)
(* deleteChildren(dir): children is the array the loop iterates.           *)
(***************************************************************************)
RECURSIVE deleteChildrenFrom(_, _, _, _)
deleteChildrenFrom(nodes, children, i, depth) ==
  IF depth = 0 THEN Threw(nodes, "RangeError")
  ELSE IF i > Len(children) THEN Returned(nodes)
  ELSE LET childId == children[i] IN
    IF childId \in DOMAIN nodes /\ isDirectory(nodes[childId])
    THEN LET below == deleteChildrenFrom(nodes, nodes[childId].children, 1, depth - 1)
         IN IF below.err # "ok" THEN below
            ELSE deleteChildrenFrom(RemoveKey(below.nodes, childId), children, i + 1, depth)
    ELSE deleteChildrenFrom(RemoveKey(nodes, childId), children, i + 1, depth)

\* a deleteChildren that deletes the children and not what is below them
deleteChildrenShallow(nodes, dirId, depth) ==
  Returned([id \in DOMAIN nodes \ {nodes[dirId].children[i] :
                                      i \in 1..Len(nodes[dirId].children)} |-> nodes[id]])

deleteChildren(nodes, dirId, depth) ==
  deleteChildrenFrom(nodes, nodes[dirId].children, 1, depth)

deleteNode(nodes, path, depth, now) ==
  LET id == getNodeByPath(nodes, path) IN
  IF id = NULL_ID THEN Threw(nodes, "NotFound")
  ELSE IF nodes[id].parentId = NULL_ID THEN Threw(nodes, "RootImmutable")
  ELSE LET emptied == IF isDirectory(nodes[id]) THEN deleteChildren(nodes, id, depth)
                      ELSE Returned(nodes)
       IN IF emptied.err # "ok" THEN emptied
          ELSE LET parentId == nodes[id].parentId
                   detached ==
                     IF parentId \in DOMAIN emptied.nodes
                        /\ isDirectory(emptied.nodes[parentId])
                     THEN [emptied.nodes EXCEPT ![parentId].children = FilterOut(@, id),
                                                ![parentId].updatedAt = now]
                     ELSE emptied.nodes
               IN Returned(RemoveKey(detached, id))

(***************************************************************************)
(* generateDiff(oldNodes, newNodes): the records of the ids of oldNodes in *)
(* iteration order, then a create for every id only in newNodes.           *)
(***************************************************************************)
UNDEFINED == <<"undefined">>

RECURSIVE SortedIds(_)
SortedIds(S) == IF S = {} THEN <<>> ELSE <<MinOf(S)>> \o SortedIds(S \ {MinOf(S)})

FileChange(type, nodeId, oldPath, newPath, oldContent, newContent, oldParentId, newParentId) ==
  [type |-> type, nodeId |-> nodeId, oldPath |-> oldPath, newPath |-> newPath,
   oldContent |-> oldContent, newContent |-> newContent,
   oldParentId |-> oldParentId, newParentId |-> newParentId]

\* the first loop with an update for every file whose node object differs
OldNodeChangeOfAnyField(oldNodes, newNodes, id) ==
  IF id \notin DOMAIN newNodes
  THEN <<FileChange("delete", id, oldNodes[id].path, UNDEFINED, UNDEFINED, UNDEFINED,
                    NULL_ID, NULL_ID)>>
  ELSE IF oldNodes[id].path # newNodes[id].path
  THEN <<FileChange("move", id, oldNodes[id].path, newNodes[id].path, UNDEFINED,
                    UNDEFINED, oldNodes[id].parentId, newNodes[id].parentId)>>
  ELSE IF isFile(oldNodes[id]) /\ isFile(newNodes[id]) /\ oldNodes[id] # newNodes[id]
  THEN <<FileChange("update", id, UNDEFINED, UNDEFINED, oldNodes[id].content,
                    newNodes[id].content, NULL_ID, NULL_ID)>>
  ELSE <<>>

\* the first loop with an update after the move of a file whose content differs too
OldNodeChangeMoveAndUpdate(oldNodes, newNodes, id) ==
  LET update == <<FileChange("update", id, UNDEFINED, UNDEFINED, oldNodes[id].content,
                             newNodes[id].content, NULL_ID, NULL_ID)>>
      differs == isFile(oldNodes[id]) /\ isFile(newNodes[id])
                 /\ oldNodes[id].content # newNodes[id].content
  IN IF id \notin DOMAIN newNodes
     THEN <<FileChange("delete", id, oldNodes[id].path, UNDEFINED, UNDEFINED, UNDEFINED,
                       NULL_ID, NULL_ID)>>
     ELSE IF oldNodes[id].path # newNodes[id].path
     THEN <<FileChange("move", id, oldNodes[id].path, newNodes[id].path, UNDEFINED,
                       UNDEFINED, oldNodes[id].parentId, newNodes[id].parentId)>>
          \o (IF differs THEN update ELSE <<>>)
     ELSE IF differs THEN update
     ELSE <<>>

\* the record the first loop pushes for id, as a sequence of zero or one records
OldNodeChange(oldNodes, newNodes, id) ==
  IF id \notin DOMAIN newNodes
  THEN <<FileChange("delete", id, oldNodes[id].path, UNDEFINED, UNDEFINED, UNDEFINED,
                    NULL_ID, NULL_ID)>>
  ELSE IF oldNodes[id].path # newNodes[id].path
  THEN <<FileChange("move", id, oldNodes[id].path, newNodes[id].path, UNDEFINED,
                    UNDEFINED, oldNodes[id].parentId, newNodes[id].parentId)>>
  ELSE IF isFile(oldNodes[id]) /\ isFile(newNodes[id])
          /\ oldNodes[id].content # newNodes[id].content
  THEN <<FileChange("update", id, UNDEFINED, UNDEFINED, oldNodes[id].content,
                    newNodes[id].content, NULL_ID, NULL_ID)>>
  ELSE <<>>

NewNodeChange(oldNodes, newNodes, id) ==
  IF id \notin DOMAIN oldNodes
  THEN <<FileChange("create", id, UNDEFINED, newNodes[id].path, UNDEFINED,
                    IF isFile(newNodes[id]) THEN newNodes[id].content ELSE UNDEFINED,
                    NULL_ID, NULL_ID)>>
  ELSE <<>>

RECURSIVE ConcatAll(_)
ConcatAll(seqs) == IF seqs = <<>> THEN <<>> ELSE Head(seqs) \o ConcatAll(Tail(seqs))

generateDiff(oldNodes, newNodes) ==
  LET olds == SortedIds(DOMAIN oldNodes)
      news == SortedIds(DOMAIN newNodes)
  IN ConcatAll([i \in 1..Len(olds) |-> OldNodeChange(oldNodes, newNodes, olds[i])])
     \o ConcatAll([i \in 1..Len(news) |-> NewNodeChange(oldNodes, newNodes, news[i])])

(***************************************************************************)
(* Snapshots and object sharing.  A snapshot is the node map cloneNodes    *)
(* built (m) together with the ids whose node object (sharedNodes) and     *)
(* whose children array (sharedChildren) it shares with the live           *)
(* project.nodes.  cloneNodes builds a new Map, a new object for every     *)
(* node and a new array for every directory, so its result shares nothing. *)
(***************************************************************************)
EmptyMap == [id \in {} |-> RootNode]

\* the clone shares the children arrays: children: node.children
cloneNodesSharingChildren(nodes) ==
  [m |-> [id \in DOMAIN nodes |-> nodes[id]],
   sharedNodes |-> {},
   sharedChildren |-> {id \in DOMAIN nodes : isDirectory(nodes[id])}]

cloneNodes(nodes) ==
  [m |-> [id \in DOMAIN nodes |-> nodes[id]], sharedNodes |-> {}, sharedChildren |-> {}]

IsPush(before, after) ==
  Len(after) > Len(before) /\ SubSeq(after, 1, Len(before)) = before

\* What a snapshot holds after the engine took the live map from old to new:
\* a write to a shared node object shows in the snapshot, and so does a push
\* onto a shared children array; assigning node.children a new array ends the
\* sharing of the old one.
Propagate(snap, old, new) ==
  LET live == DOMAIN old \cap DOMAIN new
      pushed(id) == IsPush(old[id].children, new[id].children)
      kept(id) == old[id].children = new[id].children
  IN [m |-> [id \in DOMAIN snap.m |->
               IF id \in snap.sharedNodes \cap live THEN new[id]
               ELSE IF id \in snap.sharedChildren \cap live /\ pushed(id)
               THEN [snap.m[id] EXCEPT !.children = new[id].children]
               ELSE snap.m[id]],
      sharedNodes |-> snap.sharedNodes \cap live,
      sharedChildren |-> {id \in snap.sharedChildren \cap live : pushed(id) \/ kept(id)}]

PropagateEntry(entry, old, new) ==
  [entry EXCEPT !.beforeSnapshot = Propagate(@, old, new),
                !.afterSnapshot = Propagate(@, old, new)]

PropagateAll(log, old, new) ==
  [i \in 1..Len(log) |-> PropagateEntry(log[i], old, new)]

\* project.nodes was assigned another Map: nothing is shared with the new one
Unshared(snap) == [snap EXCEPT !.sharedNodes = {}, !.sharedChildren = {}]

UnsharedAll(log) ==
  [i \in 1..Len(log) |-> [log[i] EXCEPT !.beforeSnapshot = Unshared(@),
                                        !.afterSnapshot = Unshared(@)]]

(***************************************************************************)
(* HistoryManager                                                          *)
(***************************************************************************)
maxHistorySize == 50

\* the entries without the sharing bookkeeping: what the log holds
EntryValue(entry) ==
  [changes |-> entry.changes, beforeSnapshot |-> entry.beforeSnapshot.m,
   afterSnapshot |-> entry.afterSnapshot.m]

LogValue(log) == [i \in 1..Len(log) |-> EntryValue(log[i])]

(***************************************************************************)
(* The FileSystemCommand factories: a command is the engine call its       *)
(* executeAction makes.                                                    *)
(***************************************************************************)
Command(op, path, name, content, target) ==
  [op |-> op, path |-> path, name |-> name, content |-> content, target |-> target]

Commands(paths, names, contents) ==
  {Command("createFile", p, n, c, <<>>) : p \in paths, n \in names, c \in contents}
  \cup {Command("createDirectory", p, n, <<>>, <<>>) : p \in paths, n \in names}
  \cup {Command("updateFile", p, <<>>, c, <<>>) : p \in paths, c \in contents}
  \cup {Command("renameNode", p, n, <<>>, <<>>) : p \in paths, n \in names}
  \cup {Command("moveNode", p, <<>>, <<>>, t) : p \in paths, t \in paths}
  \cup {Command("deleteNode", p, <<>>, <<>>, <<>>) : p \in paths}

\* executeAction(): the engine call of the command
executeAction(nodes, newId, cmd, depth, now) ==
  CASE cmd.op = "createFile" -> createFile(nodes, newId, cmd.path, cmd.name, cmd.content,
                                       now)
    [] cmd.op = "createDirectory" -> createDirectory(nodes, newId, cmd.path, cmd.name, now)
    [] cmd.op = "updateFile" -> updateFile(nodes, cmd.path, cmd.content, now)
    [] cmd.op = "renameNode" -> renameNode(nodes, cmd.path, cmd.name, depth, now)
    [] cmd.op = "moveNode" -> moveNode(nodes, cmd.path, cmd.target, depth, now)
    [] cmd.op = "deleteNode" -> deleteNode(nodes, cmd.path, depth, now)

\* a call of a path-utils.ts function: with fn "none" the call is still to
\* be made and args are the arguments it will get
Call(fn, args, ret) == [fn |-> fn, args |-> args, ret |-> ret]

NoCall == Call("none", <<>>, <<>>)

\* this.autosaveTimer of a store that never scheduled an autosave
NO_TIMER == 0

\* the time of the last call of the scheduler when there was none
NEVER == -1

\* a ProjectStore on which setupAutosave's scheduler was never called
NoAutosave ==
  [timer |-> NO_TIMER, pending |-> {}, nextTimer |-> 1, now |-> 0, lastCall |-> NEVER,
   bursts |-> 0, saves |-> 0, nulls |-> 0]

(***************************************************************************)
(* State.                                                                  *)
(*   nodes         project.nodes, the live node map                        *)
(*   nextId        the next id generateId() returns                        *)
(*   history       HistoryManager.history                                  *)
(*   currentIndex  HistoryManager.currentIndex (-1: no entry applied)      *)
(*   last          how the last call ended: "ok", the class of the         *)
(*                 exception it threw, or what undo / redo / jump returned *)
(*   law           the undo-all / redo-all pass in progress, if any        *)
(*   clock         what new Date() returns now                             *)
(*   console       what the last handleApplyPlan() wrote to the console,   *)
(*                 one record per console.log / console.warn call          *)
(*   call          the call of a path-utils.ts function under way: the     *)
(*                 function, its arguments and what it returned            *)
(*   autosave      the autosave of the ProjectStore: its autosaveTimer,    *)
(*                 the timers setTimeout has pending, the time, and what   *)
(*                 the scheduler and the timer callback have done so far   *)
(***************************************************************************)
VARIABLES nodes, nextId, history, currentIndex, last, law, clock, console, call,
          autosave

vars == <<nodes, nextId, history, currentIndex, last, law, clock, console, call, autosave>>

LawIdle == [phase |-> "idle", saved |-> EmptyMap, n |-> 0]

Init ==
  /\ nodes = InitialNodes
  /\ nextId = 1
  /\ history = <<>>
  /\ currentIndex = -1
  /\ last = "ok"
  /\ law = LawIdle
  /\ clock = 0
  /\ console = <<>>
  /\ call = NoCall
  /\ autosave = NoAutosave

\* the class of what a call threw: the engine throws FileSystemError, the
\* runtime RangeError
Outcome(err) ==
  IF err = "ok" THEN "ok"
  ELSE IF err = "RangeError" THEN "RangeError"
  ELSE "FileSystemError"

\* an engine call made directly on the project (the file tree does so)
EngineCall(r) ==
  /\ law.phase = "idle"
  /\ nodes' = r.nodes
  /\ history' = PropagateAll(history, nodes, r.nodes)
  /\ last' = Outcome(r.err)
  /\ UNCHANGED <<currentIndex, law, clock, console, call, autosave>>

\* generateId() is reached only by a create that passed every check
Allocates(r, cap) ==
  /\ r.err = "ok" => nextId <= cap
  /\ nextId' = IF r.err = "ok" THEN nextId + 1 ELSE nextId

CreateFile(cap, parentPath, name, content) ==
  LET r == createFile(nodes, nextId, parentPath, name, content, clock)
  IN Allocates(r, cap) /\ EngineCall(r)

CreateDirectory(cap, parentPath, name) ==
  LET r == createDirectory(nodes, nextId, parentPath, name, clock)
  IN Allocates(r, cap) /\ EngineCall(r)

UpdateFile(path, content) ==
  EngineCall(updateFile(nodes, path, content, clock)) /\ UNCHANGED nextId

RenameNode(path, newName, depth) ==
  EngineCall(renameNode(nodes, path, newName, depth, clock)) /\ UNCHANGED nextId

MoveNode(sourcePath, targetDirPath, depth) ==
  EngineCall(moveNode(nodes, sourcePath, targetDirPath, depth, clock))
  /\ UNCHANGED nextId

DeleteNode(path, depth) ==
  EngineCall(deleteNode(nodes, path, depth, clock)) /\ UNCHANGED nextId

(***************************************************************************)
(* recordChange(description, () => {}, executeAction)                      *)
(***************************************************************************)
\* history.push(entry) without the return on an empty diff
pushEntryOfEmptyDiff(r, seen, index, entry) ==
  LET appended == Append(SubSeq(seen, 1, index + 1), entry)
  IN IF r.err # "ok"
     THEN [nodes |-> r.nodes, err |-> r.err, history |-> seen, currentIndex |-> index]
     ELSE IF Len(appended) > maxHistorySize
     THEN [nodes |-> r.nodes, err |-> r.err, history |-> Tail(appended),
           currentIndex |-> index]
     ELSE [nodes |-> r.nodes, err |-> r.err, history |-> appended,
           currentIndex |-> index + 1]

\* history.push(entry) with the cut of the redo tail made before the action
\* runs, so that a throwing action has already lost it
pushEntryCutFirst(r, seen, index, entry) ==
  LET appended == Append(SubSeq(seen, 1, index + 1), entry)
  IN IF r.err # "ok"
     THEN [nodes |-> r.nodes, err |-> r.err,
           history |-> SubSeq(seen, 1, index + 1), currentIndex |-> index]
     ELSE IF entry.changes = <<>>
     THEN [nodes |-> r.nodes, err |-> r.err, history |-> seen, currentIndex |-> index]
     ELSE IF Len(appended) > maxHistorySize
     THEN [nodes |-> r.nodes, err |-> r.err, history |-> Tail(appended),
           currentIndex |-> index]
     ELSE [nodes |-> r.nodes, err |-> r.err, history |-> appended,
           currentIndex |-> index + 1]

\* history.push(entry) without the shift() of a log grown past maxHistorySize
pushEntryUnbounded(r, seen, index, entry) ==
  LET appended == Append(SubSeq(seen, 1, index + 1), entry)
  IN IF r.err # "ok" \/ entry.changes = <<>>
     THEN [nodes |-> r.nodes, err |-> r.err, history |-> seen, currentIndex |-> index]
     ELSE [nodes |-> r.nodes, err |-> r.err, history |-> appended,
           currentIndex |-> index + 1]

\* history.push(entry) without the cut of the redo tail
pushEntryKeepingRedo(r, seen, index, entry) ==
  LET appended == Append(seen, entry)
  IN IF r.err # "ok" \/ entry.changes = <<>>
     THEN [nodes |-> r.nodes, err |-> r.err, history |-> seen, currentIndex |-> index]
     ELSE IF Len(appended) > maxHistorySize
     THEN [nodes |-> r.nodes, err |-> r.err, history |-> Tail(appended),
           currentIndex |-> index]
     ELSE [nodes |-> r.nodes, err |-> r.err, history |-> appended,
           currentIndex |-> index + 1]

\* history.push(entry), the cut of the redo tail before it and of the oldest
\* entry after it; nothing is recorded when the action threw or changed nothing
pushEntry(r, seen, index, entry) ==
  LET appended == Append(SubSeq(seen, 1, index + 1), entry)
  IN IF r.err # "ok" \/ entry.changes = <<>>
     THEN [nodes |-> r.nodes, err |-> r.err, history |-> seen, currentIndex |-> index]
     ELSE IF Len(appended) > maxHistorySize
     THEN [nodes |-> r.nodes, err |-> r.err, history |-> Tail(appended),
           currentIndex |-> index]
     ELSE [nodes |-> r.nodes, err |-> r.err, history |-> appended,
           currentIndex |-> index + 1]

\* the HistoryEntry of a change
HistoryEntry(beforeSnapshot, afterSnapshot) ==
  [changes |-> generateDiff(beforeSnapshot.m, afterSnapshot.m),
   beforeSnapshot |-> beforeSnapshot, afterSnapshot |-> afterSnapshot]

\* recordChange once executeAction has returned r: beforeSnapshot was cloned
\* from the live map before the action ran, afterSnapshot is cloned after
afterAction(live, log, index, r) ==
  pushEntry(r, PropagateAll(log, live, r.nodes), index,
            HistoryEntry(Propagate(cloneNodes(live), live, r.nodes),
                         cloneNodes(r.nodes)))

\* what recordChange leaves behind: the exception of the action propagates
\* before anything is recorded
recordChange(live, log, index, newId, cmd, depth, now) ==
  afterAction(live, log, index, executeAction(live, newId, cmd, depth, now))

\* recordChange called with a command: r is what the call leaves behind
RecordChange(cap, maxLog, cmd, r) ==
  /\ law.phase = "idle"
  /\ Len(r.history) <= maxLog
  /\ IF cmd.op \in {"createFile", "createDirectory"}
     THEN Allocates(r, cap) ELSE UNCHANGED nextId
  /\ nodes' = r.nodes
  /\ history' = r.history
  /\ currentIndex' = r.currentIndex
  /\ last' = Outcome(r.err)
  /\ UNCHANGED <<law, clock, console, call, autosave>>

(***************************************************************************)
(* undo / redo / jumpToHistoryPoint                                        *)
(***************************************************************************)
canUndo(index) == index >= 0
canRedo(log, index) == index < Len(log) - 1

\* project.nodes = cloneNodes(snapshot): the log after the assignment, entry
\* i (1-based) holding the snapshot that was cloned
Restored(log, i, which, clone) ==
  [UnsharedAll(log) EXCEPT
     ![i][which].sharedNodes = clone.sharedNodes,
     ![i][which].sharedChildren = clone.sharedChildren]

\* undo restoring the snapshot taken after the change
undoToAfterSnapshot(live, log, index) ==
  IF ~canUndo(index)
  THEN [ret |-> FALSE, nodes |-> live, history |-> log, currentIndex |-> index]
  ELSE LET clone == cloneNodes(log[index + 1].afterSnapshot.m)
       IN [ret |-> TRUE, nodes |-> clone.m,
           history |-> Restored(log, index + 1, "afterSnapshot", clone),
           currentIndex |-> index - 1]

\* redo restoring the snapshot taken before the change
redoToBeforeSnapshot(live, log, index) ==
  IF ~canRedo(log, index)
  THEN [ret |-> FALSE, nodes |-> live, history |-> log, currentIndex |-> index]
  ELSE LET clone == cloneNodes(log[index + 2].beforeSnapshot.m)
       IN [ret |-> TRUE, nodes |-> clone.m,
           history |-> Restored(log, index + 2, "beforeSnapshot", clone),
           currentIndex |-> index + 1]

undo(live, log, index) ==
  IF ~canUndo(index)
  THEN [ret |-> FALSE, nodes |-> live, history |-> log, currentIndex |-> index]
  ELSE LET clone == cloneNodes(log[index + 1].beforeSnapshot.m)
       IN [ret |-> TRUE, nodes |-> clone.m,
           history |-> Restored(log, index + 1, "beforeSnapshot", clone),
           currentIndex |-> index - 1]

redo(live, log, index) ==
  IF ~canRedo(log, index)
  THEN [ret |-> FALSE, nodes |-> live, history |-> log, currentIndex |-> index]
  ELSE LET clone == cloneNodes(log[index + 2].afterSnapshot.m)
       IN [ret |-> TRUE, nodes |-> clone.m,
           history |-> Restored(log, index + 2, "afterSnapshot", clone),
           currentIndex |-> index + 1]

jumpToHistoryPoint(live, log, index, target) ==
  IF target < -1 \/ target >= Len(log)
  THEN [ret |-> FALSE, nodes |-> live, history |-> log, currentIndex |-> index]
  ELSE IF target = index
  THEN [ret |-> TRUE, nodes |-> live, history |-> log, currentIndex |-> index]
  ELSE IF target = -1
  THEN [ret |-> TRUE, nodes |-> EmptyMap, history |-> UnsharedAll(log),
        currentIndex |-> -1]
  ELSE LET clone == cloneNodes(log[target + 1].afterSnapshot.m)
       IN [ret |-> TRUE, nodes |-> clone.m,
           history |-> Restored(log, target + 1, "afterSnapshot", clone),
           currentIndex |-> target]

HistoryCall(r) ==
  /\ nodes' = r.nodes
  /\ history' = r.history
  /\ currentIndex' = r.currentIndex
  /\ last' = IF r.ret THEN "true" ELSE "false"
  /\ UNCHANGED <<nextId, clock, console, call, autosave>>

Undo ==
  /\ law.phase = "idle"
  /\ HistoryCall(undo(nodes, history, currentIndex))
  /\ UNCHANGED law

Redo ==
  /\ law.phase = "idle"
  /\ HistoryCall(redo(nodes, history, currentIndex))
  /\ UNCHANGED law

JumpToHistoryPoint(index) ==
  /\ law.phase = "idle"
  /\ HistoryCall(jumpToHistoryPoint(nodes, history, currentIndex, index))
  /\ UNCHANGED law

(***************************************************************************)
(* Arguments the calls are made with.                                      *)
(***************************************************************************)
NAME_A == <<"a">>
NAME_B == <<"b">>
PATH_A == <<"/", "a">>
PATH_B == <<"/", "b">>

Names == {NAME_A, NAME_B}

\* one name for every reason validateFileName rejects a name for, and one
\* more than MAX_NAME_LENGTH characters long
LongName == [i \in 1..(MAX_NAME_LENGTH + 1) |-> "a"]
InvalidNames ==
  {<<>>, <<SPACE>>, <<"a", "/", "b">>, <<"a", BACKSLASH>>, <<CTRL>>, <<"a", STAR>>,
   <<DOT>>, <<DOT, DOT>>, LongName}

PATH_AA == PATH_A \o PATH_A
PATH_AB == PATH_A \o PATH_B

\* the paths the engine is called with: normalized ones of up to three
\* segments, the empty path, a relative path, and spellings of /a, /a/a and
\* /a/b with a trailing, a repeated and a backslash separator
PathArgs ==
  {ROOT_PATH, PATH_A, PATH_B, PATH_AA, PATH_AB, PATH_AA \o PATH_A,
   <<>>, NAME_A, PATH_A \o <<"/">>, PATH_A \o <<"/">> \o PATH_A,
   PATH_A \o <<BACKSLASH>> \o NAME_B}

Contents == {<<"1">>, <<"2", "2">>}

\* Frames left on the call stack when the engine is entered.  The number is
\* the JavaScript engine's; any number larger than the deepest tree gives the
\* same runs, up to the length of the path a runaway recursion leaves behind.
StackDepth == MaxNodes + MaxSpellNodes + 3

(***************************************************************************)
(* Specifications.                                                         *)
(*   SpecFS     the engine alone, called directly                          *)
(***************************************************************************)
NextFS ==
  \/ \E p \in PathArgs, n \in Names, c \in Contents : CreateFile(MaxNodes, p, n, c)
  \/ \E p \in PathArgs, n \in Names : CreateDirectory(MaxNodes, p, n)
  \/ \E p \in PathArgs, c \in Contents : UpdateFile(p, c)
  \/ \E p \in PathArgs, n \in Names : RenameNode(p, n, StackDepth)
  \/ \E p \in PathArgs, t \in PathArgs : MoveNode(p, t, StackDepth)
  \/ \E p \in PathArgs : DeleteNode(p, StackDepth)

SpecFS == Init /\ [][NextFS]_vars

(***************************************************************************)
(*   SpecNames  the calls that take a name, with every kind of name        *)
(***************************************************************************)
\* a name validateFileName accepts although it holds U+007F
NAME_DEL == <<"a", DEL>>

NameArgs == Names \cup {NAME_DEL} \cup InvalidNames

NamePaths == {ROOT_PATH, PATH_A, <<"/">> \o NAME_DEL}

NextNames ==
  \/ \E p \in NamePaths, n \in NameArgs, c \in Contents : CreateFile(MaxNodes, p, n, c)
  \/ \E p \in NamePaths, n \in NameArgs : CreateDirectory(MaxNodes, p, n)
  \/ \E p \in NamePaths, n \in NameArgs : RenameNode(p, n, StackDepth)
  \/ \E p \in NamePaths : DeleteNode(p, StackDepth)

SpecNames == Init /\ [][NextNames]_vars

(***************************************************************************)
(*   SpecSpell  creations, renames and deletions in a deeper tree, with    *)
(*              the spellings of /a/a                                      *)
(***************************************************************************)
SpellPaths ==
  {ROOT_PATH, PATH_A, PATH_AA, PATH_A \o <<"/">> \o PATH_A, PATH_AA \o PATH_A}

SpellContents == {<<"1">>}

NextSpell ==
  \/ \E p \in SpellPaths, c \in SpellContents : CreateFile(MaxSpellNodes, p, NAME_A, c)
  \/ \E p \in SpellPaths : CreateDirectory(MaxSpellNodes, p, NAME_A)
  \/ \E p \in SpellPaths, n \in Names : RenameNode(p, n, StackDepth)
  \/ \E p \in SpellPaths : DeleteNode(p, StackDepth)

SpecSpell == Init /\ [][NextSpell]_vars

(***************************************************************************)
(*   Spec       engine calls, recorded commands, undo, redo and jumps      *)
(***************************************************************************)
HistPaths == {ROOT_PATH, PATH_A}

\* the content files are created with; updateFile writes any of Contents
HistContents == {<<"1">>}

HistCommands == Commands(HistPaths, Names, HistContents)

Next ==
  \/ \E p \in HistPaths, n \in Names, c \in HistContents :
       CreateFile(MaxHistNodes, p, n, c)
  \/ \E p \in HistPaths, n \in Names : CreateDirectory(MaxHistNodes, p, n)
  \/ \E p \in HistPaths, c \in Contents : UpdateFile(p, c)
  \/ \E p \in HistPaths, n \in Names : RenameNode(p, n, StackDepth)
  \/ \E p \in HistPaths, t \in HistPaths : MoveNode(p, t, StackDepth)
  \/ \E p \in HistPaths : DeleteNode(p, StackDepth)
  \/ \E cmd \in HistCommands :
       RecordChange(MaxHistNodes, MaxHist, cmd,
                    recordChange(nodes, history, currentIndex, nextId, cmd, StackDepth,
                                 clock))
  \/ Undo
  \/ Redo
  \/ \E i \in -2..MaxHist : JumpToHistoryPoint(i)

Spec == Init /\ [][Next]_vars

(***************************************************************************)
(*   SpecHistory  the History Manager alone: recorded commands, undo, redo *)
(*                and jumps                                                *)
(***************************************************************************)
NextHistory ==
  \/ \E cmd \in HistCommands :
       RecordChange(MaxHistNodes, MaxHist, cmd,
                    recordChange(nodes, history, currentIndex, nextId, cmd, StackDepth,
                                 clock))
  \/ Undo
  \/ Redo
  \/ \E i \in -2..MaxHist : JumpToHistoryPoint(i)

SpecHistory == Init /\ [][NextHistory]_vars

(***************************************************************************)
(*   SpecUndoRedo  recorded commands, undo and redo, and the pass of the   *)
(*                 undo/redo law: undo() until it returns false, then as   *)
(*                 many redo() as undo() returned true                     *)
(***************************************************************************)
LawUndo ==
  LET r == undo(nodes, history, currentIndex)
      saved == IF law.phase = "idle" THEN nodes ELSE law.saved
  IN /\ law.phase \in {"idle", "undoing"}
     /\ HistoryCall(r)
     /\ law' = IF r.ret
               THEN [phase |-> "undoing", saved |-> saved, n |-> law.n + 1]
               ELSE [phase |-> IF law.n = 0 THEN "done" ELSE "redoing",
                     saved |-> saved, n |-> law.n]

LawRedo ==
  /\ law.phase = "redoing"
  /\ HistoryCall(redo(nodes, history, currentIndex))
  /\ law' = [law EXCEPT !.phase = IF law.n = 1 THEN "done" ELSE "redoing",
                        !.n = law.n - 1]

LawDone ==
  /\ law.phase = "done"
  /\ law' = LawIdle
  /\ UNCHANGED <<nodes, nextId, history, currentIndex, last, clock, console, call, autosave>>

\* the commands of the pass: creations, updates, renames and deletions
LawCommands == {cmd \in Commands(HistPaths, Names, Contents) : cmd.op # "moveNode"}

\* time passes between two calls
Tick ==
  /\ law.phase = "idle"
  /\ clock < MaxClock
  /\ clock' = clock + 1
  /\ UNCHANGED <<nodes, nextId, history, currentIndex, last, law, console, call, autosave>>

NextUndoRedo ==
  \/ \E cmd \in LawCommands :
       RecordChange(MaxHistNodes, MaxHist, cmd,
                    recordChange(nodes, history, currentIndex, nextId, cmd, StackDepth,
                                 clock))
  \/ Undo
  \/ Redo
  \/ LawUndo
  \/ LawRedo
  \/ LawDone
  \/ Tick

SpecUndoRedo == Init /\ [][NextUndoRedo]_vars

(***************************************************************************)
(* The history manager driven until its log is full: one file is created   *)
(* and then renamed back and forth, each rename one more entry, with       *)
(* undo(), redo() and jumpToHistoryPoint() in between.  The log may grow   *)
(* as far as the code lets it.                                             *)
(***************************************************************************)
FullLogCommands ==
  {Command("createFile", ROOT_PATH, NAME_A, <<"1">>, <<>>),
   Command("renameNode", PATH_A, NAME_B, <<>>, <<>>),
   Command("renameNode", PATH_B, NAME_A, <<>>, <<>>)}

\* jumps below, at and above both ends of a full log
FullLogJumps ==
  {-2, -1, 0, maxHistorySize - 2, maxHistorySize - 1, maxHistorySize}

NextFullLog ==
  \/ \E cmd \in FullLogCommands :
       RecordChange(MaxFullNodes, maxHistorySize + 1, cmd,
                    recordChange(nodes, history, currentIndex, nextId, cmd, StackDepth,
                                 clock))
  \/ Undo
  \/ Redo
  \/ \E i \in FullLogJumps : JumpToHistoryPoint(i)

SpecFullLog == Init /\ [][NextFullLog]_vars

(***************************************************************************)
(* handleApplyPlan (ChatPanel.tsx) and the path check it starts with       *)
(* (schemas.ts).  The project and both callbacks are present; the          *)
(* callbacks, React state setters, return.                                 *)
(***************************************************************************)
\* s.includes(sub)
Includes(s, sub) ==
  \E i \in 1..(Len(s) - Len(sub) + 1) : SubSeq(s, i, i + Len(sub) - 1) = sub

allowedDirs ==
  {<<"/", "a", "p", "p">>,
   <<"/", "c", "o", "m", "p", "o", "n", "e", "n", "t", "s">>,
   <<"/", "p", "u", "b", "l", "i", "c">>,
   <<"/", "s", "t", "y", "l", "e", "s">>,
   <<"/", "l", "i", "b">>}

MAX_PATH_LENGTH == 500

\* FileChangeSchema.shape.path.parse(path) does not throw
validateFilePath(path) ==
  /\ \E dir \in allowedDirs : StartsWith(path, dir)
  /\ ~Includes(path, <<DOT, DOT>>)
  /\ ~Includes(path, <<PATH_SEPARATOR, PATH_SEPARATOR>>)
  /\ Len(path) > 0
  /\ Len(path) < MAX_PATH_LENGTH

BASE36 ==
  <<"0", "1", "2", "3", "4", "5", "6", "7", "8", "9", "a", "b", "c", "d", "e", "f",
    "g", "h", "i", "j", "k", "l", "m", "n", "o", "p", "q", "r", "s", "t", "u", "v",
    "w", "x", "y", "z">>

\* the string generateId() returned for the node the model numbers id: three
\* base-36 fields joined by dashes
generateId(id) ==
  <<BASE36[(id % 36) + 1], "-", BASE36[(id % 36) + 1], "-", BASE36[(id % 36) + 1]>>

\* one element of plan.changes; content is UNDEFINED when the item has none
Change(type, path, content) == [type |-> type, path |-> path, content |-> content]

\* one console call: its level, the item it is about (its index in
\* plan.changes), the message, and the code of the error logged with it
Logged(level, i, message, err) ==
  [level |-> level, item |-> i, message |-> message, error |-> err]

\* console.warn(...): the item is given up
Warned(st, i, message, err) ==
  [st EXCEPT !.console = Append(st.console, Logged("warn", i, message, err))]

\* what the loop of handleApplyPlan carries from one item to the next
Applying(live, newId) ==
  [nodes |-> live, nextId |-> newId, console |-> <<>>, hasChanges |-> FALSE]

\* existingNode.content = change.content; existingNode.updatedAt = new Date()
overwriteContent(live, id, content, now) ==
  [live EXCEPT ![id].content = content, ![id].updatedAt = now]

\* the try around operations.createFile(parentPath, filename, content)
createOrWarn(st, r, i) ==
  IF r.err = "ok"
  THEN [st EXCEPT !.nodes = r.nodes, !.nextId = st.nextId + 1, !.hasChanges = TRUE]
  ELSE Warned([st EXCEPT !.nodes = r.nodes], i, "Failed to create file", r.err)

\* case 'create'
applyCreate(st, change, i, now) ==
  IF change.content = UNDEFINED THEN st
  ELSE LET existingNode == getNodeByPath(st.nodes, change.path) IN
    IF existingNode # NULL_ID /\ isFile(st.nodes[existingNode])
    THEN [st EXCEPT !.nodes = overwriteContent(st.nodes, existingNode, change.content, now),
                    !.console = Append(st.console,
                                       Logged("log", i, "already exists, updating", "none")),
                    !.hasChanges = TRUE]
    ELSE LET k == LastIndexOfSep(change.path)
             filename == SubSeq(change.path, k + 1, Len(change.path))
             joined == SubSeq(change.path, 1, k - 1)
             parentPath == IF joined = <<>> THEN ROOT_PATH ELSE joined
         IN IF filename = <<>> THEN st
            ELSE createOrWarn(st, createFile(st.nodes, st.nextId, parentPath, filename,
                                             change.content, now), i)

\* case 'update'
applyUpdate(st, change, i, now) ==
  LET existingNode == getNodeByPath(st.nodes, change.path) IN
  IF existingNode # NULL_ID /\ isFile(st.nodes[existingNode])
     /\ change.content # UNDEFINED
  THEN [st EXCEPT !.nodes = overwriteContent(st.nodes, existingNode, change.content, now),
                  !.hasChanges = TRUE]
  ELSE Warned(st, i, "Cannot update file", "none")

\* the try around operations.deleteNode(nodeToDelete.id)
deleteOrWarn(st, r, i) ==
  IF r.err = "ok"
  THEN [st EXCEPT !.nodes = r.nodes, !.hasChanges = TRUE]
  ELSE Warned([st EXCEPT !.nodes = r.nodes], i, "Failed to delete file", r.err)

\* case 'delete'
applyDelete(st, change, i, depth, now) ==
  LET nodeToDelete == getNodeByPath(st.nodes, change.path) IN
  IF nodeToDelete # NULL_ID
  THEN deleteOrWarn(st, deleteNode(st.nodes, generateId(nodeToDelete), depth, now), i)
  ELSE Warned(st, i, "Cannot delete file", "none")

\* a loop over plan.changes that returns at the first item given up
RECURSIVE applyChangesUntilWarned(_, _, _, _, _)
applyChangesUntilWarned(st, changes, i, depth, now) ==
  IF i > Len(changes) THEN st
  ELSE IF Len(st.console) > 0 /\ st.console[Len(st.console)].level = "warn" THEN st
  ELSE applyChangesUntilWarned(
         IF ~validateFilePath(changes[i].path)
         THEN Warned(st, i, "Skipping invalid path", "none")
         ELSE CASE changes[i].type = "create" -> applyCreate(st, changes[i], i, now)
                [] changes[i].type = "update" -> applyUpdate(st, changes[i], i, now)
                [] changes[i].type = "delete" -> applyDelete(st, changes[i], i, depth, now),
         changes, i + 1, depth, now)

\* the body of the loop over plan.changes
applyChange(st, change, i, depth, now) ==
  IF ~validateFilePath(change.path)
  THEN Warned(st, i, "Skipping invalid path", "none")
  ELSE CASE change.type = "create" -> applyCreate(st, change, i, now)
         [] change.type = "update" -> applyUpdate(st, change, i, now)
         [] change.type = "delete" -> applyDelete(st, change, i, depth, now)

RECURSIVE applyChanges(_, _, _, _, _)
applyChanges(st, changes, i, depth, now) ==
  IF i > Len(changes) THEN st
  ELSE applyChanges(applyChange(st, changes[i], i, depth, now), changes, i + 1, depth, now)

\* handleApplyPlan(plan): it returns nothing and lets no exception out; the
\* result here is the project it leaves and the console it wrote
handleApplyPlan(live, newId, changes, depth, now) ==
  applyChanges(Applying(live, newId), changes, 1, depth, now)

\* one call of handleApplyPlan(plan); r is what
\* handleApplyPlan(nodes, nextId, plan.changes, StackDepth, clock) gives
HandleApplyPlan(cap, r) ==
  /\ law.phase = "idle"
  /\ r.nextId <= cap + 1
  /\ nodes' = r.nodes
  /\ nextId' = r.nextId
  /\ history' = PropagateAll(history, nodes, r.nodes)
  /\ console' = r.console
  /\ last' = "ok"
  /\ UNCHANGED <<currentIndex, law, clock, call, autosave>>

(***************************************************************************)
(*   SpecPlan  change plans applied to a project in which the user makes   *)
(*             and removes the directory /app                              *)
(***************************************************************************)
NAME_APP == <<"a", "p", "p">>
PATH_APP == <<"/", "a", "p", "p">>
PATH_MISSING_TXT == <<"/", "m", "i", "s", "s", "i", "n", "g", ".", "t", "x", "t">>
PATH_OK_TXT == <<"/", "o", "k", ".", "t", "x", "t">>

\* items for /app, a create without content among them, and one item for a
\* path outside the allowed directories
PlanChanges ==
  {Change("create", PATH_APP, <<"1">>),
   Change("create", PATH_APP, UNDEFINED),
   Change("update", PATH_APP, <<"2">>),
   Change("delete", PATH_APP, UNDEFINED),
   Change("create", PATH_A, <<"1">>)}

\* the plan of the specification's scenario
ScenarioPlan ==
  <<Change("update", PATH_MISSING_TXT, <<"y">>), Change("create", PATH_OK_TXT, <<"z">>)>>

Plans ==
  UNION {[1..n -> PlanChanges] : n \in 0..MaxPlanLen} \cup {ScenarioPlan}

NextPlan ==
  \/ \E changes \in Plans :
       HandleApplyPlan(MaxPlanNodes,
                       handleApplyPlan(nodes, nextId, changes, StackDepth, clock))
  \/ CreateDirectory(MaxPlanNodes, ROOT_PATH, NAME_APP)
  \/ DeleteNode(PATH_APP, StackDepth)

SpecPlan == Init /\ [][NextPlan]_vars

(***************************************************************************)
(*   SpecAllowList  plans of one item, over paths on both sides of the     *)
(*                  check of validateFilePath                              *)
(***************************************************************************)
PATH_LIB == <<"/", "l", "i", "b">>
\* siblings of /app and /lib whose names begin with the letters of app, lib
PATH_APPLE == <<"/", "a", "p", "p", "l", "e">>
PATH_LIBRARY == <<"/", "l", "i", "b", "r", "a", "r", "y">>
PATH_APP_A == PATH_APP \o PATH_A
\* /app/../a and /app//a
PATH_APP_UP_A == PATH_APP \o <<"/", DOT, DOT>> \o PATH_A
PATH_APP_SLASH_A == PATH_APP \o <<"/">> \o PATH_A

AllowListPaths ==
  {PATH_APP, PATH_LIB, PATH_APPLE, PATH_LIBRARY, PATH_APP_A, PATH_APP_UP_A,
   PATH_APP_SLASH_A, PATH_A, ROOT_PATH, <<>>}

AllowListPlans ==
  {<<Change("create", p, <<"1">>)>> : p \in AllowListPaths}
  \cup {<<Change("update", p, <<"2">>)>> : p \in AllowListPaths}
  \cup {<<Change("delete", p, UNDEFINED)>> : p \in AllowListPaths}

NextAllowList ==
  \/ \E changes \in AllowListPlans :
       HandleApplyPlan(MaxAllowNodes,
                       handleApplyPlan(nodes, nextId, changes, StackDepth, clock))
  \/ CreateDirectory(MaxAllowNodes, ROOT_PATH, NAME_APP)
  \/ DeleteNode(PATH_APP, StackDepth)

SpecAllowList == Init /\ [][NextAllowList]_vars

(***************************************************************************)
(* Properties of a node map that the claims below are stated with.         *)
(***************************************************************************)
\* following parentId from id reaches a node without parent in at most
\* steps steps
RECURSIVE ReachesRoot(_, _, _)
ReachesRoot(m, id, steps) ==
  IF m[id].parentId = NULL_ID THEN TRUE
  ELSE IF steps = 0 \/ m[id].parentId \notin DOMAIN m THEN FALSE
  ELSE ReachesRoot(m, m[id].parentId, steps - 1)

NoCycle(m) == \A id \in DOMAIN m : ReachesRoot(m, id, Cardinality(DOMAIN m))

\* anc is a proper ancestor of id
RECURSIVE IsAncestor(_, _, _, _)
IsAncestor(m, anc, id, steps) ==
  IF steps = 0 \/ m[id].parentId \notin DOMAIN m THEN FALSE
  ELSE IF m[id].parentId = anc THEN TRUE
  ELSE IsAncestor(m, anc, m[id].parentId, steps - 1)

\* targetDirPath resolves to a directory strictly nested under the directory
\* sourcePath resolves to
NestedTarget(m, sourcePath, targetDirPath) ==
  LET sourceId == getNodeByPath(m, sourcePath)
      targetId == getNodeByPath(m, targetDirPath)
  IN /\ sourceId # NULL_ID /\ isDirectory(m[sourceId])
     /\ targetId # NULL_ID /\ isDirectory(m[targetId])
     /\ IsAncestor(m, sourceId, targetId, Cardinality(DOMAIN m))

PathsDerived(m) ==
  \A id \in DOMAIN m :
    IF m[id].parentId = NULL_ID THEN m[id].path = ROOT_PATH
    ELSE /\ m[id].parentId \in DOMAIN m
         /\ m[id].path = joinPath(m[m[id].parentId].path, m[id].name)

NoDuplicateSiblings(m) ==
  \A x \in DOMAIN m, y \in DOMAIN m :
    (x # y /\ m[x].parentId = m[y].parentId) => m[x].name # m[y].name

Occurrences(seq, x) == Cardinality({i \in 1..Len(seq) : seq[i] = x})

ParentsAndChildren(m) ==
  /\ \A id \in DOMAIN m :
       m[id].parentId # NULL_ID =>
         /\ m[id].parentId \in DOMAIN m
         /\ isDirectory(m[m[id].parentId])
         /\ Occurrences(m[m[id].parentId].children, id) = 1
  /\ \A id \in DOMAIN m : \A i \in 1..Len(m[id].children) :
       m[id].children[i] \in DOMAIN m

OneRoot(m) ==
  /\ Cardinality({id \in DOMAIN m : m[id].parentId = NULL_ID}) = 1
  /\ ROOT_ID \in DOMAIN m
  /\ m[ROOT_ID].parentId = NULL_ID
  /\ isDirectory(m[ROOT_ID])

\* the name is non-empty, holds no path separator, is not . or .., is at most
\* 255 characters long and holds none of the characters of controls
NameWellFormed(name, controls) ==
  /\ name # <<>>
  /\ \A i \in 1..Len(name) : name[i] # PATH_SEPARATOR /\ name[i] \notin controls
  /\ name # <<DOT>> /\ name # <<DOT, DOT>>
  /\ Len(name) <= 255

\* createFile, createDirectory and renameNode throw the invalid-name error
\* for the name, whatever path they are given, and change nothing
NameRejected(m, name) ==
  \A p \in NamePaths :
    /\ \A c \in Contents :
         createFile(m, nextId, p, name, c, clock) = Threw(m, "NameInvalid")
    /\ createDirectory(m, nextId, p, name, clock) = Threw(m, "NameInvalid")
    /\ renameNode(m, p, name, StackDepth, clock) = Threw(m, "NameInvalid")

\* the log new keeps every entry of the log old that is still in it as it
\* was: either nothing changed, or entries after some position were dropped,
\* one entry was appended, and at most the oldest entry was evicted
EntriesKept(old, new) ==
  \/ new = old
  \/ \E keep \in 0..Len(old), drop \in 0..1 :
       /\ drop <= keep
       /\ Len(new) = keep - drop + 1
       /\ \A i \in 1..(keep - drop) : new[i] = old[i + drop]

(***************************************************************************)
(* C1 (as claimed): an engine call that throws leaves the node map exactly *)
(* as it was.  Violated: moveNode('/a', '/a') on a directory /a rewrites   *)
(* the tree and then throws RangeError.                                    *)
(***************************************************************************)
C1_FailedCallLeavesProjectUntouched ==
  [][last' \in {"FileSystemError", "RangeError"} => nodes' = nodes]_vars

(***************************************************************************)
(* C2 (as claimed): after any sequence of engine calls, following parentId *)
(* from any node reaches the root without visiting a node twice.           *)
(* Violated: moveNode('/a', '/a') makes /a its own parent.                 *)
(***************************************************************************)
C2_NoDirectoryIsItsOwnAncestor == NoCycle(nodes)

(***************************************************************************)
(* C3 (as claimed): moveNode(source, target) with target a directory       *)
(* strictly nested under the directory at source throws CyclicMove and     *)
(* leaves the tree unchanged.  Violated when source is the root: the call  *)
(* throws RootImmutable.                                                   *)
(***************************************************************************)
C3_NestedMoveThrowsCyclicMove ==
  \A s \in PathArgs, t \in PathArgs :
    NestedTarget(nodes, s, t) =>
      moveNode(nodes, s, t, StackDepth, clock) = Threw(nodes, "CyclicMove")

(***************************************************************************)
(* C3 (amended): moveNode(source, target) with target a directory strictly *)
(* nested under the directory at source throws and leaves the tree         *)
(* unchanged; the error is CyclicMove when source is not the root and      *)
(* RootImmutable when it is.                                               *)
(***************************************************************************)
C3_NestedMoveRejected ==
  \A s \in PathArgs, t \in PathArgs :
    NestedTarget(nodes, s, t) =>
      moveNode(nodes, s, t, StackDepth, clock) =
        Threw(nodes, IF nodes[getNodeByPath(nodes, s)].parentId = NULL_ID
                     THEN "RootImmutable" ELSE "CyclicMove")

\* a call was rejected in a tree that holds a directory nested under a
\* directory other than the root
C3_Witness ==
  /\ last = "FileSystemError"
  /\ \E s \in PathArgs, t \in PathArgs :
       /\ NestedTarget(nodes, s, t)
       /\ getNodeByPath(nodes, s) # ROOT_ID

(***************************************************************************)
(* C4 (as claimed): after any sequence of successful engine calls every    *)
(* non-root node's path is join(parent.path, name) and the root's path is  *)
(* the separator.  Violated: createDirectory('/a//a', 'a') stores the path *)
(* /a//a/a.                                                                *)
(***************************************************************************)
C4_PathIsParentPathPlusName == PathsDerived(nodes)

(***************************************************************************)
(* C5 (as claimed): after any sequence of successful engine calls no two   *)
(* nodes with the same parentId have the same name.  Violated: the node    *)
(* stored under /a//a/a is not found under /a/a/a, so a second a is        *)
(* created in /a/a.                                                        *)
(***************************************************************************)
C5_SiblingNamesDistinct == NoDuplicateSiblings(nodes)

(***************************************************************************)
(* C6: in every state the engine reaches, the parent of every node is in   *)
(* the node map, is a directory and lists the node exactly once, and every *)
(* id in a children list is in the node map.                               *)
(***************************************************************************)
C6_ParentsAndChildrenAgree == ParentsAndChildren(nodes)

\* a node was deleted and a node was moved under a directory other than the
\* root by calls that succeeded
C6_Witness ==
  /\ last = "ok"
  /\ nextId > Cardinality(DOMAIN nodes)
  /\ \E id \in DOMAIN nodes : nodes[id].parentId \notin {NULL_ID, ROOT_ID}

(***************************************************************************)
(* C7 (as claimed): after every successful operation exactly one node has  *)
(* no parent, it is a directory and it is the node stored under rootId.    *)
(* Violated: jumpToHistoryPoint(-1) returns true and leaves an empty node  *)
(* map.                                                                    *)
(***************************************************************************)
C7_ExactlyOneRoot == last \in {"ok", "true"} => OneRoot(nodes)

(***************************************************************************)
(* C8 (as claimed): every node's name is non-empty, holds no path          *)
(* separator, is not . or .., is at most 255 characters long and holds no  *)
(* control character, and the calls that take a name reject every other    *)
(* name.  Violated in the initial state: the root's name is the separator. *)
(***************************************************************************)
C8_EveryNameWellFormed ==
  /\ \A id \in DOMAIN nodes : NameWellFormed(nodes[id].name, {CTRL, DEL})
  /\ \A n \in NameArgs : ~NameWellFormed(n, {CTRL, DEL}) => NameRejected(nodes, n)

(***************************************************************************)
(* C8 (amended): every node other than the root has a name that is         *)
(* non-empty, holds no path separator, is not . or .., is at most 255      *)
(* characters long and holds no character of U+0000..U+001F; createFile,   *)
(* createDirectory and renameNode reject every name that violates one of   *)
(* these with the invalid-name error.                                      *)
(***************************************************************************)
C8_NonRootNamesWellFormed ==
  /\ \A id \in DOMAIN nodes \ {ROOT_ID} : NameWellFormed(nodes[id].name, {CTRL})
  /\ \A n \in NameArgs : ~NameWellFormed(n, {CTRL}) => NameRejected(nodes, n)

\* a call was rejected in a tree that holds a node created under a name with
\* U+007F and a renamed node
C8_Witness ==
  /\ last = "FileSystemError"
  /\ \E id \in DOMAIN nodes : nodes[id].name = NAME_DEL
  /\ \E id \in DOMAIN nodes \ {ROOT_ID} :
       nodes[id].path # ROOT_PATH /\ nodes[id].name = NAME_B

(***************************************************************************)
(* C9 (as claimed): undo() until it returns false and then as many redo()  *)
(* as undo() returned true leave the node map equal to the one before the  *)
(* first undo().  Violated: a recorded updateFile that writes the content  *)
(* the file has sets updatedAt, its diff is empty and no entry is          *)
(* recorded, so no snapshot holds the node map the pass started from.      *)
(***************************************************************************)
C9_UndoAllRedoAllRestores == law.phase = "done" => nodes = law.saved

(***************************************************************************)
(* C10: no step changes an entry that stays in the log: whatever the       *)
(* engine, undo, redo or jumpToHistoryPoint do to the live node map, the   *)
(* before and after snapshots and the changes of every kept entry are the  *)
(* same afterwards.                                                        *)
(***************************************************************************)
C10_SnapshotsNeverChange ==
  [][EntriesKept(LogValue(history), LogValue(history'))]_vars

\* the live node map was changed by a call after the entry under the cursor
\* was recorded: a directory of the snapshot has another children list now
C10_Witness ==
  /\ last = "ok"
  /\ currentIndex >= 0
  /\ \E id \in DOMAIN nodes \cap DOMAIN history[currentIndex + 1].afterSnapshot.m :
       nodes[id].children # history[currentIndex + 1].afterSnapshot.m[id].children

(***************************************************************************)
(* C11: a step of undo() with the cursor below 0 returns false and leaves  *)
(* the node map, the cursor and the log as they are; any other step of     *)
(* undo() returns true, makes the node map the before snapshot of the      *)
(* entry the cursor pointed at, lowers the cursor by one and leaves the    *)
(* log entries as they are.                                                *)
(***************************************************************************)
C11_UndoRestoresBeforeSnapshot ==
  [][Undo =>
       IF currentIndex < 0
       THEN /\ last' = "false"
            /\ nodes' = nodes
            /\ currentIndex' = currentIndex
            /\ LogValue(history') = LogValue(history)
       ELSE /\ last' = "true"
            /\ nodes' = history[currentIndex + 1].beforeSnapshot.m
            /\ currentIndex' = currentIndex - 1
            /\ LogValue(history') = LogValue(history)]_vars

\* an undo() returned true: the node map is the before snapshot of the entry
\* after the cursor, and that differs from the entry's after snapshot
C11_Witness ==
  /\ last = "true"
  /\ currentIndex + 2 <= Len(history)
  /\ nodes = history[currentIndex + 2].beforeSnapshot.m
  /\ nodes # history[currentIndex + 2].afterSnapshot.m

(***************************************************************************)
(* C12: a step of redo() with the cursor at the newest entry, or with an   *)
(* empty log, returns false and changes nothing; any other step of redo()  *)
(* returns true, raises the cursor by one and makes the node map the after *)
(* snapshot of the entry the cursor then points at.                        *)
(***************************************************************************)
C12_RedoRestoresAfterSnapshot ==
  [][Redo =>
       IF currentIndex >= Len(history) - 1
       THEN /\ last' = "false"
            /\ nodes' = nodes
            /\ currentIndex' = currentIndex
            /\ LogValue(history') = LogValue(history)
       ELSE /\ last' = "true"
            /\ currentIndex' = currentIndex + 1
            /\ nodes' = history'[currentIndex' + 1].afterSnapshot.m
            /\ LogValue(history') = LogValue(history)]_vars

\* a redo() returned true after an undo(): the cursor is at the newest of
\* two entries and the node map is its after snapshot
C12_Witness ==
  /\ last = "true"
  /\ currentIndex = 1
  /\ Len(history) = 2
  /\ nodes = history[2].afterSnapshot.m
  /\ nodes # history[2].beforeSnapshot.m

(***************************************************************************)
(* C13: a step of recordChange whose action returns with a non-empty diff  *)
(* while the cursor is behind the newest entry drops every entry after the *)
(* cursor, keeps the entries up to the cursor as they are and in order,    *)
(* and appends the new entry; afterwards the cursor is at the new, last    *)
(* entry and redo() returns false.                                         *)
(***************************************************************************)
C13_RecordDiscardsRedoBranch ==
  [][( /\ currentIndex < Len(history) - 1
       /\ last' = "ok"
       /\ generateDiff(nodes, nodes') # <<>>
       /\ \E cmd \in HistCommands :
            RecordChange(MaxHistNodes, MaxHist, cmd,
                              recordChange(nodes, history, currentIndex, nextId, cmd,
                                           StackDepth, clock)) )
       => /\ Len(history') = currentIndex + 2
          /\ \A i \in 1..(currentIndex + 1) :
               LogValue(history')[i] = LogValue(history)[i]
          /\ LogValue(history')[currentIndex + 2] =
               [changes |-> generateDiff(nodes, nodes'),
                beforeSnapshot |-> nodes, afterSnapshot |-> nodes']
          /\ currentIndex' = Len(history') - 1
          /\ ~redo(nodes', history', currentIndex').ret]_vars

\* a recorded change has replaced a redo branch: the newest node ever
\* created is in no snapshot of the log, the cursor is at the last entry
C13_Witness ==
  /\ last = "ok"
  /\ Len(history) = 2
  /\ currentIndex = 1
  /\ nextId = 3
  /\ \A i \in 1..Len(history) :
       /\ 2 \notin DOMAIN history[i].afterSnapshot.m
       /\ 2 \notin DOMAIN history[i].beforeSnapshot.m

(***************************************************************************)
(* C14: a step of recordChange whose action returns with an empty diff     *)
(* leaves the history as it was: the entries and their order, the cursor,  *)
(* canUndo() and canRedo(); a pending redo branch stays.                   *)
(***************************************************************************)
C14_EmptyDiffKeepsHistory ==
  [][( /\ last' = "ok"
       /\ generateDiff(nodes, nodes') = <<>>
       /\ \E cmd \in HistCommands :
            RecordChange(MaxHistNodes, MaxHist, cmd,
                              recordChange(nodes, history, currentIndex, nextId, cmd,
                                           StackDepth, clock)) )
       => /\ LogValue(history') = LogValue(history)
          /\ currentIndex' = currentIndex
          /\ canUndo(currentIndex') = canUndo(currentIndex)
          /\ canRedo(history', currentIndex') = canRedo(history, currentIndex)]_vars

\* an action has returned while a redo branch is pending, and the branch
\* is still there: only an empty diff leaves it
C14_Witness ==
  /\ last = "ok"
  /\ currentIndex < Len(history) - 1
  /\ canRedo(history, currentIndex)

(***************************************************************************)
(* C16: when the action passed to recordChange throws, the caller gets the *)
(* exception and the history is as before: no entry appended, none         *)
(* removed, the cursor where it was.                                       *)
(***************************************************************************)
C16_ThrowKeepsHistory ==
  [][(\E cmd \in HistCommands :
        /\ executeAction(nodes, nextId, cmd, StackDepth, clock).err # "ok"
        /\ RecordChange(MaxHistNodes, MaxHist, cmd,
                           recordChange(nodes, history, currentIndex, nextId, cmd,
                                        StackDepth, clock)))
       => /\ last' \in {"FileSystemError", "RangeError"}
          /\ Len(history') = Len(history)
          /\ LogValue(history') = LogValue(history)
          /\ currentIndex' = currentIndex]_vars

\* an action has thrown while the log held an entry to undo and one to redo
C16_Witness ==
  /\ last \in {"FileSystemError", "RangeError"}
  /\ Len(history) = 2
  /\ currentIndex = 0

(***************************************************************************)
(* C15: the log never holds more than maxHistorySize entries and the       *)
(* cursor stays between -1 and the index of the last entry; a recordChange *)
(* that would make the log maxHistorySize + 1 long evicts exactly the      *)
(* oldest entry and leaves the cursor on the entry just appended.          *)
(***************************************************************************)
C15_LogBoundedOldestEvicted ==
  /\ [](/\ Len(history) <= maxHistorySize
        /\ -1 <= currentIndex
        /\ currentIndex <= Len(history) - 1)
  /\ [][\A cmd \in FullLogCommands :
          ( /\ currentIndex + 2 > maxHistorySize
            /\ RecordChange(MaxFullNodes, maxHistorySize + 1, cmd,
                            recordChange(nodes, history, currentIndex, nextId, cmd,
                                         StackDepth, clock))
            /\ last' = "ok"
            /\ generateDiff(nodes, nodes') # <<>> )
          => /\ Len(history') = maxHistorySize
             /\ \A i \in 1..(maxHistorySize - 1) :
                  LogValue(history')[i] = LogValue(history)[i + 1]
             /\ LogValue(history')[maxHistorySize] =
                  [changes |-> generateDiff(nodes, nodes'),
                   beforeSnapshot |-> nodes, afterSnapshot |-> nodes']
             /\ currentIndex' = maxHistorySize - 1]_vars

\* the log is full, the cursor is at its last entry and the entry that
\* created the file, the first one ever recorded, is gone
C15_Witness ==
  /\ last = "ok"
  /\ Len(history) = maxHistorySize
  /\ currentIndex = maxHistorySize - 1
  /\ history[1].changes[1].type = "move"

(***************************************************************************)
(* Change plans: helpers for the claims about handleApplyPlan.             *)
(***************************************************************************)
\* the plan without its item i
RemoveAt(changes, i) == SubSeq(changes, 1, i - 1) \o SubSeq(changes, i + 1, Len(changes))

\* the warnings of a console, in order
Warnings(out) == SelectSeq(out, LAMBDA rec : rec.level = "warn")

\* item i was given up: a warning names it
Failed(out, i) == \E k \in 1..Len(out) : out[k].level = "warn" /\ out[k].item = i

\* the console without the records of item i, the later items renumbered
WithoutItem(out, i) ==
  LET kept == SelectSeq(out, LAMBDA rec : rec.item # i)
  IN [k \in 1..Len(kept) |->
        IF kept[k].item > i THEN [kept[k] EXCEPT !.item = kept[k].item - 1] ELSE kept[k]]

\* the result of applying the plan to the project as it is now
Applied(changes) == handleApplyPlan(nodes, nextId, changes, StackDepth, clock)

(***************************************************************************)
(* C17: every item of a plan is processed, in order; an item that fails or *)
(* is rejected does not keep the later ones from being applied: the        *)
(* project and the console records of the other items are what the plan    *)
(* without that item gives.                                                *)
(***************************************************************************)
C17_FailedItemDoesNotStopThePlan ==
  \A changes \in Plans : \A r \in {Applied(changes)} :
    \A i \in 1..Len(changes) :
      Failed(r.console, i)
      => \A rest \in {Applied(RemoveAt(changes, i))} :
           /\ r.nodes = rest.nodes
           /\ r.nextId = rest.nextId
           /\ r.hasChanges = rest.hasChanges
           /\ WithoutItem(r.console, i) = rest.console

\* a plan has been applied whose first item was given up and whose second
\* item overwrote the file /app
C17_Witness ==
  /\ Len(console) = 2
  /\ console[1].level = "warn" /\ console[1].item = 1
  /\ console[2].level = "log" /\ console[2].item = 2
  /\ getNodeByPath(nodes, PATH_APP) # NULL_ID
  /\ nodes[getNodeByPath(nodes, PATH_APP)].content = <<"1">>

(***************************************************************************)
(* C18: applying the plan [update /missing.txt with y, create /ok.txt with *)
(* z] to a project that holds only the root gives one collected error, for *)
(* the update, and afterwards /ok.txt resolves to a file with content z.   *)
(* handleApplyPlan gives both items up: neither path is under an allowed   *)
(* directory.                                                              *)
(***************************************************************************)
C18_ScenarioCollectsOneError ==
  [][( /\ DOMAIN nodes = {ROOT_ID}
       /\ HandleApplyPlan(MaxPlanNodes, Applied(ScenarioPlan)) )
     => /\ last' = "ok"
        /\ Len(Warnings(console')) = 1
        /\ Warnings(console')[1].item = 1
        /\ getNodeByPath(nodes', PATH_OK_TXT) # NULL_ID
        /\ isFile(nodes'[getNodeByPath(nodes', PATH_OK_TXT)])
        /\ nodes'[getNodeByPath(nodes', PATH_OK_TXT)].content = <<"z">>]_vars

\* the create items of the plans for the path /app
CreatesOfApp == {change \in PlanChanges : change.type = "create" /\ change.path = PATH_APP}

\* path resolves to a file of the node map
ResolvesToFile(live, path) ==
  getNodeByPath(live, path) # NULL_ID /\ isFile(live[getNodeByPath(live, path)])

(***************************************************************************)
(* C19: a create item whose path resolves to a file is applied as an       *)
(* update: afterwards the same node is at the path, its content is the     *)
(* item's content, the node map has no new node and no failure is reported *)
(* for the item.  A create item without content is dropped before the path *)
(* is looked at, and the file keeps the content it had.                    *)
(***************************************************************************)
C19_CreateOnFileOverwrites ==
  [][\A change \in CreatesOfApp :
       ( /\ ResolvesToFile(nodes, PATH_APP)
         /\ HandleApplyPlan(MaxPlanNodes, Applied(<<change>>)) )
       => /\ getNodeByPath(nodes', PATH_APP) = getNodeByPath(nodes, PATH_APP)
          /\ nodes'[getNodeByPath(nodes', PATH_APP)].content = change.content
          /\ DOMAIN nodes' = DOMAIN nodes
          /\ Warnings(console') = <<>>]_vars

\* the same for the create items that carry content
C19_CreateWithContentOnFileOverwrites ==
  [][\A change \in CreatesOfApp :
       ( /\ change.content # UNDEFINED
         /\ ResolvesToFile(nodes, PATH_APP)
         /\ HandleApplyPlan(MaxPlanNodes, Applied(<<change>>)) )
       => /\ getNodeByPath(nodes', PATH_APP) = getNodeByPath(nodes, PATH_APP)
          /\ nodes'[getNodeByPath(nodes', PATH_APP)].content = change.content
          /\ DOMAIN nodes' = DOMAIN nodes
          /\ Warnings(console') = <<>>]_vars

(***************************************************************************)
(* C20: a delete item whose path passes validateFilePath and resolves to a *)
(* node other than the root removes the node: afterwards the path does not *)
(* resolve, the node's id is in no node map entry and not among its former *)
(* parent's children, and no failure is recorded.  handleApplyPlan hands   *)
(* deleteNode the node's id where it takes a path.                         *)
(***************************************************************************)
C20_DeleteItemRemovesNode ==
  [][( /\ validateFilePath(PATH_APP)
       /\ getNodeByPath(nodes, PATH_APP) \notin {NULL_ID, ROOT_ID}
       /\ HandleApplyPlan(MaxPlanNodes, Applied(<<Change("delete", PATH_APP, UNDEFINED)>>)) )
     => /\ getNodeByPath(nodes', PATH_APP) = NULL_ID
        /\ getNodeByPath(nodes, PATH_APP) \notin DOMAIN nodes'
        /\ \A c \in 1..Len(nodes'[ROOT_ID].children) :
             nodes'[ROOT_ID].children[c] # getNodeByPath(nodes, PATH_APP)
        /\ Warnings(console') = <<>>]_vars

\* path is an allowed directory or nested under one
UnderAllowedDir(path) ==
  \E dir \in allowedDirs : path = dir \/ StartsWith(path, dir \o <<PATH_SEPARATOR>>)

(***************************************************************************)
(* C21: an item is applied only if its path is one of /app, /components,   *)
(* /public, /styles, /lib or nested under one of them; an item with any    *)
(* other path is rejected and leaves the project as it was.  The check of  *)
(* handleApplyPlan is path.startsWith(dir), which /apple passes.           *)
(***************************************************************************)
C21_OnlyAllowedDirectoriesApplied ==
  [][\A changes \in AllowListPlans :
       ( /\ ~UnderAllowedDir(changes[1].path)
         /\ HandleApplyPlan(MaxAllowNodes, Applied(changes)) )
       => /\ nodes' = nodes
          /\ nextId' = nextId
          /\ Failed(console', 1)]_vars

\* the nodes below the node id
Descendants(m, id) == {d \in DOMAIN m : IsAncestor(m, id, d, Cardinality(DOMAIN m))}

\* after the rename of dirId every node that was below it is the same node
\* under the same parent with the same children, its path begins with the
\* directory's new path and resolves to it
DescendantsFollow(old, new, dirId) ==
  \A d \in Descendants(old, dirId) :
    /\ d \in DOMAIN new
    /\ new[d].id = old[d].id
    /\ new[d].parentId = old[d].parentId
    /\ new[d].children = old[d].children
    /\ StartsWith(new[d].path, new[dirId].path \o <<PATH_SEPARATOR>>)
    /\ getNodeByPath(new, new[d].path) = d

\* nothing resolves at the path the directory had or at a path a node
\* below it had
OldPathsGone(old, new, dirId) ==
  \A d \in Descendants(old, dirId) \cup {dirId} : getNodeByPath(new, old[d].path) = NULL_ID

(***************************************************************************)
(* C22 (as claimed): a successful renameNode of a directory keeps the id,  *)
(* parentId and children of every node below it, makes the path of each    *)
(* begin with the directory's new path, and leaves nothing resolvable      *)
(* under the old path.                                                     *)
(***************************************************************************)
C22_RenameMovesSubtree ==
  [][\A p \in SpellPaths, n \in Names :
       ( /\ last' = "ok"
         /\ getNodeByPath(nodes, p) # NULL_ID
         /\ isDirectory(nodes[getNodeByPath(nodes, p)])
         /\ RenameNode(p, n, StackDepth) )
       => /\ DescendantsFollow(nodes, nodes', getNodeByPath(nodes, p))
          /\ OldPathsGone(nodes, nodes', getNodeByPath(nodes, p))]_vars

(***************************************************************************)
(* C22, for a renameNode to a name other than the one the directory has    *)
(* (a renameNode to the directory's own name succeeds and leaves it where  *)
(* it was).                                                                *)
(***************************************************************************)
C22_RenameToNewNameMovesSubtree ==
  [][\A p \in SpellPaths, n \in Names :
       ( /\ last' = "ok"
         /\ getNodeByPath(nodes, p) # NULL_ID
         /\ isDirectory(nodes[getNodeByPath(nodes, p)])
         /\ n # nodes[getNodeByPath(nodes, p)].name
         /\ RenameNode(p, n, StackDepth) )
       => /\ DescendantsFollow(nodes, nodes', getNodeByPath(nodes, p))
          /\ OldPathsGone(nodes, nodes', getNodeByPath(nodes, p))]_vars

\* every node of new is the node it was in old: same id, name, path, parent
\* and content
OthersKept(old, new) ==
  \A o \in DOMAIN new :
    /\ o \in DOMAIN old
    /\ new[o].id = old[o].id
    /\ new[o].name = old[o].name
    /\ new[o].path = old[o].path
    /\ new[o].parentId = old[o].parentId
    /\ new[o].content = old[o].content

\* no node's parent is missing from the map
NoOrphan(m) == \A o \in DOMAIN m : m[o].parentId = NULL_ID \/ m[o].parentId \in DOMAIN m

(***************************************************************************)
(* C23: a successful deleteNode(path) removes the node at path and every   *)
(* node below it, at any depth, takes the node's id out of its parent's    *)
(* children, and leaves id, name, path, parentId and content of every      *)
(* other node as they were; no node is left whose parent is missing.       *)
(***************************************************************************)
C23_DeleteRemovesSubtree ==
  [][\A p \in SpellPaths :
       ( /\ last' = "ok"
         /\ getNodeByPath(nodes, p) # NULL_ID
         /\ DeleteNode(p, StackDepth) )
       => /\ DOMAIN nodes' =
               DOMAIN nodes \ (Descendants(nodes, getNodeByPath(nodes, p))
                                 \cup {getNodeByPath(nodes, p)})
          /\ nodes[getNodeByPath(nodes, p)].parentId \in DOMAIN nodes'
          /\ Occurrences(nodes'[nodes[getNodeByPath(nodes, p)].parentId].children,
                         getNodeByPath(nodes, p)) = 0
          /\ OthersKept(nodes, nodes')
          /\ NoOrphan(nodes')]_vars

\* every node ever made is gone again: directories were deleted with what
\* was below them
C23_Witness ==
  /\ last = "ok"
  /\ nextId = MaxSpellNodes + 1
  /\ DOMAIN nodes = {ROOT_ID}
  /\ nodes[ROOT_ID].children = <<>>

\* parentPath resolves to a directory that has a child with the name
HasChildNamed(m, parentPath, name) ==
  /\ getNodeByPath(m, parentPath) # NULL_ID
  /\ isDirectory(m[getNodeByPath(m, parentPath)])
  /\ \E o \in DOMAIN m :
       m[o].parentId = getNodeByPath(m, parentPath) /\ m[o].name = name

(***************************************************************************)
(* C24: createFile and createDirectory with a name that a node under the   *)
(* same parent already has fail with the already-exists error and change   *)
(* nothing: the node that is there keeps its id and content and no node is *)
(* added.                                                                  *)
(***************************************************************************)
C24_CreateOverSiblingRejected ==
  [][\A p \in SpellPaths, c \in SpellContents :
       ( /\ HasChildNamed(nodes, p, NAME_A)
         /\ \/ CreateFile(MaxSpellNodes, p, NAME_A, c)
            \/ CreateDirectory(MaxSpellNodes, p, NAME_A) )
       => /\ last' = "FileSystemError"
          /\ nodes' = nodes
          /\ nextId' = nextId
          /\ createFile(nodes, nextId, p, NAME_A, c, clock) = Threw(nodes, "AlreadyExists")
          /\ createDirectory(nodes, nextId, p, NAME_A, clock)
               = Threw(nodes, "AlreadyExists")]_vars

(***************************************************************************)
(*   SpecDiff   engine calls, recorded or not, while time passes: the node *)
(*              maps generateDiff is given                                 *)
(***************************************************************************)
DiffCommands == Commands(HistPaths, Names, Contents)

NextDiff ==
  \/ \E p \in HistPaths, n \in Names, c \in Contents :
       CreateFile(MaxDiffNodes, p, n, c)
  \/ \E p \in HistPaths, n \in Names : CreateDirectory(MaxDiffNodes, p, n)
  \/ \E p \in HistPaths, c \in Contents : UpdateFile(p, c)
  \/ \E p \in HistPaths, n \in Names : RenameNode(p, n, StackDepth)
  \/ \E p \in HistPaths, t \in HistPaths : MoveNode(p, t, StackDepth)
  \/ \E p \in HistPaths : DeleteNode(p, StackDepth)
  \/ \E cmd \in DiffCommands :
       RecordChange(MaxDiffNodes, MaxDiffLog, cmd,
                    recordChange(nodes, history, currentIndex, nextId, cmd, StackDepth,
                                 clock))
  \/ Tick

SpecDiff == Init /\ [][NextDiff]_vars

(***************************************************************************)
(* C25: the root is immutable.  renameNode, moveNode and deleteNode called *)
(* with a path that resolves to the root, the empty string and runs of     *)
(* separators included, fail with the root-immutable error and leave the   *)
(* node map as it was, and in every reachable state the root node has its  *)
(* id, the path "/" and no parent.                                         *)
(***************************************************************************)
RootSpellings ==
  {<<>>, ROOT_PATH, ROOT_PATH \o ROOT_PATH, ROOT_PATH \o ROOT_PATH \o ROOT_PATH}

RootKept(m) ==
  /\ ROOT_ID \in DOMAIN m
  /\ m[ROOT_ID].id = ROOT_ID
  /\ m[ROOT_ID].path = ROOT_PATH
  /\ m[ROOT_ID].parentId = NULL_ID

RootCallsRejected(m, targets) ==
  \A p \in RootSpellings :
    /\ \A n \in Names :
         renameNode(m, p, n, StackDepth, clock) = Threw(m, "RootImmutable")
    /\ \A t \in targets :
         moveNode(m, p, t, StackDepth, clock) = Threw(m, "RootImmutable")
    /\ deleteNode(m, p, StackDepth, clock) = Threw(m, "RootImmutable")

C25_RootImmutable == RootKept(nodes) /\ RootCallsRejected(nodes, HistPaths)

\* C25 for the engine called directly, without the history manager
C25_EngineKeepsRoot == RootKept(nodes) /\ RootCallsRejected(nodes, PathArgs)

(***************************************************************************)
(* C26: generateDiff(s, s) is the empty list for every snapshot s, and so  *)
(* is generateDiff(s, t) for two snapshots that have the same ids with the *)
(* same path and the same file content per id.                             *)
(***************************************************************************)
\* the node maps a run has seen: the live one and every entry's two snapshots
SnapshotsSeen ==
  {nodes} \cup {history[i].beforeSnapshot.m : i \in 1..Len(history)}
          \cup {history[i].afterSnapshot.m : i \in 1..Len(history)}

SamePathsAndContents(s, t) ==
  /\ DOMAIN s = DOMAIN t
  /\ \A id \in DOMAIN s :
       /\ s[id].path = t[id].path
       /\ (isFile(s[id]) /\ isFile(t[id])) => s[id].content = t[id].content

C26_DiffOfEqualSnapshotsEmpty ==
  \A s \in SnapshotsSeen, t \in SnapshotsSeen :
    SamePathsAndContents(s, t) => generateDiff(s, t) = <<>>

\* two snapshots that agree on ids, paths and contents and differ elsewhere
C26_Witness ==
  \E s \in SnapshotsSeen, t \in SnapshotsSeen :
    /\ s # t
    /\ SamePathsAndContents(s, t)
    /\ \E id \in DOMAIN s : isFile(s[id])

(***************************************************************************)
(* project-store.ts: saveProject and loadProject.  The store is the        *)
(* 'projects' object store, a function from project id to the record put   *)
(* under it.  A Date is its time value in milliseconds; a record holds the  *)
(* project's three dates as ISO-8601 strings and the nodes as the array of  *)
(* [id, node] pairs in the iteration order of the Map, the nodes' own dates *)
(* kept as dates by the structured clone.                                   *)
(***************************************************************************)
\* lastOpenedAt of a project that has none
NO_DATE == -1

\* what loadProject returns for an id the store does not hold
NO_PROJECT == [null |-> TRUE]

DIGITS == <<"0", "1", "2", "3", "4", "5", "6", "7", "8", "9">>

DigitValue(c) == CHOOSE d \in 0..9 : DIGITS[d + 1] = c

\* the date, hour and minute of every time value below one minute
ISO_MINUTE_ZERO ==
  <<"1", "9", "7", "0", "-", "0", "1", "-", "0", "1", "T", "0", "0", ":", "0", "0", ":">>

\* Date.prototype.toISOString() cut to whole seconds
toISOStringOfSeconds(t) ==
  LET seconds == (t \div 1000) % 60
  IN ISO_MINUTE_ZERO \o <<DIGITS[(seconds \div 10) + 1], DIGITS[(seconds % 10) + 1]>>
       \o <<".", "0", "0", "0", "Z">>

\* Date.prototype.toISOString() of a time value below one minute
toISOString(t) ==
  LET seconds == (t \div 1000) % 60
      ms == t % 1000
  IN ISO_MINUTE_ZERO \o <<DIGITS[(seconds \div 10) + 1], DIGITS[(seconds % 10) + 1]>>
       \o <<".", DIGITS[(ms \div 100) + 1], DIGITS[((ms \div 10) % 10) + 1],
            DIGITS[(ms % 10) + 1], "Z">>

\* new Date(isoString) of such a string
DateOfISO(s) ==
  LET at(i) == DigitValue(s[Len(ISO_MINUTE_ZERO) + i])
  IN (at(1) * 10 + at(2)) * 1000 + at(4) * 100 + at(5) * 10 + at(6)

\* new Date(date): a new Date of the same time value
DateOfDate(d) == d

\* Array.from(project.nodes.entries())
Entries(m) ==
  LET ids == SortedIds(DOMAIN m) IN [i \in 1..Len(ids) |-> <<ids[i], m[ids[i]]>>]

\* new Map(pairs): a later pair of the same key replaces the earlier one
MapOf(pairs) ==
  [id \in {pairs[i][1] : i \in 1..Len(pairs)} |->
     pairs[CHOOSE i \in 1..Len(pairs) :
             pairs[i][1] = id /\ \A j \in (i + 1)..Len(pairs) : pairs[j][1] # id][2]]

Project(id, name, description, rootId, live, createdAt, updatedAt, lastOpenedAt) ==
  [id |-> id, name |-> name, description |-> description, rootId |-> rootId,
   nodes |-> live, createdAt |-> createdAt, updatedAt |-> updatedAt,
   lastOpenedAt |-> lastOpenedAt]

EmptyStore == [id \in {} |-> <<>>]

\* the record saveProject builds
serialized(project) ==
  [id |-> project.id, name |-> project.name, description |-> project.description,
   rootId |-> project.rootId, nodes |-> Entries(project.nodes),
   createdAt |-> toISOString(project.createdAt),
   updatedAt |-> toISOString(project.updatedAt),
   lastOpenedAt |-> IF project.lastOpenedAt = NO_DATE THEN UNDEFINED
                    ELSE toISOString(project.lastOpenedAt)]

\* saveProject(project): db.put('projects', serialized)
saveProject(db, project) ==
  [id \in DOMAIN db \cup {project.id} |->
     IF id = project.id THEN serialized(project) ELSE db[id]]

\* the project loadProject builds from the record
deserialized(data) ==
  [id |-> data.id, name |-> data.name, description |-> data.description,
   rootId |-> data.rootId,
   nodes |-> MapOf([i \in 1..Len(data.nodes) |->
                      <<data.nodes[i][1],
                        [data.nodes[i][2] EXCEPT !.createdAt = DateOfDate(@),
                                                 !.updatedAt = DateOfDate(@)]>>]),
   createdAt |-> DateOfISO(data.createdAt),
   updatedAt |-> DateOfISO(data.updatedAt),
   lastOpenedAt |-> IF data.lastOpenedAt = UNDEFINED THEN NO_DATE
                    ELSE DateOfISO(data.lastOpenedAt)]

\* loadProject(id) at the time now: the project returned and the store left
loadProject(db, id, now) ==
  IF id \notin DOMAIN db THEN [project |-> NO_PROJECT, db |-> db]
  ELSE LET project == [deserialized(db[id]) EXCEPT !.lastOpenedAt = now]
       IN [project |-> project, db |-> saveProject(db, project)]

\* the projects of the live node map: createProject's ids, a name, with and
\* without a description, and dates up to now
PROJECT_NAME == <<"p">>

Descriptions == {UNDEFINED, <<"d">>}

Projects(live, now) ==
  {Project(generateId(MaxDiffNodes + 1), PROJECT_NAME, d, ROOT_ID, live, c, u, o) :
     d \in Descriptions, c \in 0..now, u \in 0..now, o \in {NO_DATE} \cup 0..now}

(***************************************************************************)
(* C27: persistence round trip.  Loading the record saveProject(p) wrote   *)
(* gives a project equal to p: the same id, name and rootId, the same      *)
(* nodes with the same fields, and the same createdAt, updatedAt and       *)
(* lastOpenedAt on the project and the same dates on every node.           *)
(***************************************************************************)
C27_LoadOfSavedIsEqual ==
  \A p \in Projects(nodes, clock) :
    loadProject(saveProject(EmptyStore, p), p.id, clock).project = p

\* C27 as the code has it: equal but for lastOpenedAt, which is the time of
\* the load, and the stored record is written again with it
C27_LoadOfSavedIsEqualButLastOpened ==
  \A p \in Projects(nodes, clock) :
    \A r \in {loadProject(saveProject(EmptyStore, p), p.id, clock)} :
      /\ r.project = [p EXCEPT !.lastOpenedAt = clock]
      /\ r.db = saveProject(EmptyStore, r.project)
      /\ r.db[p.id].lastOpenedAt = toISOString(clock)

\* a project with a file written after it was created, opened before now
C27_Witness ==
  /\ clock > 0
  /\ \E id \in DOMAIN nodes : isFile(nodes[id]) /\ nodes[id].updatedAt > nodes[id].createdAt
  /\ \E p \in Projects(nodes, clock) :
       /\ p.lastOpenedAt # NO_DATE /\ p.lastOpenedAt < clock /\ p.updatedAt = clock
       /\ loadProject(saveProject(EmptyStore, p), p.id, clock).project.nodes = nodes

(***************************************************************************)
(*   SpecSize   the writes of a file's content: createFile and updateFile  *)
(*              called directly and the create and update items of a plan  *)
(***************************************************************************)
NAME_LIB == <<"l", "i", "b">>

SizePaths == {PATH_APP, PATH_LIB}

SizePlans ==
  {<<Change("create", p, c)>> : p \in SizePaths, c \in Contents}
  \cup {<<Change("update", p, c)>> : p \in SizePaths, c \in Contents}

NextSize ==
  \/ \E changes \in SizePlans :
       HandleApplyPlan(MaxSizeNodes,
                       handleApplyPlan(nodes, nextId, changes, StackDepth, clock))
  \/ \E n \in {NAME_APP, NAME_LIB}, c \in Contents :
       CreateFile(MaxSizeNodes, ROOT_PATH, n, c)
  \/ \E p \in SizePaths, c \in Contents : UpdateFile(p, c)
  \/ \E p \in SizePaths : DeleteNode(p, StackDepth)

SpecSize == Init /\ [][NextSize]_vars

(***************************************************************************)
(* C28: in every reachable state every file's size is the length of its    *)
(* content, whichever write put the content there: createFile, updateFile, *)
(* or the overwrite of a plan's update item or of a create item that finds *)
(* the file.                                                               *)
(***************************************************************************)
C28_SizeIsContentLength ==
  \A id \in DOMAIN nodes : isFile(nodes[id]) => nodes[id].size = Len(nodes[id].content)

(***************************************************************************)
(* C29: for two snapshots before and after, generateDiff returns at most   *)
(* one record per node id, and exactly a create for each id only in after, *)
(* a delete for each id only in before, a move with the old and new path   *)
(* and the old and new parent id for each id in both whose path differs,   *)
(* an update for each id in both whose path is equal and whose file        *)
(* content differs, and no record for any other id; no id gets both a move *)
(* and an update.                                                          *)
(***************************************************************************)
\* the kind of record the id is to get
RecordKind(before, after, id) ==
  IF id \notin DOMAIN before THEN "create"
  ELSE IF id \notin DOMAIN after THEN "delete"
  ELSE IF before[id].path # after[id].path THEN "move"
  ELSE IF isFile(before[id]) /\ isFile(after[id])
          /\ before[id].content # after[id].content THEN "update"
  ELSE "none"

RecordsOf(changes, id) == {i \in 1..Len(changes) : changes[i].nodeId = id}

DiffIsExact(before, after, changes) ==
  /\ \A i \in 1..Len(changes) : changes[i].nodeId \in DOMAIN before \cup DOMAIN after
  /\ \A id \in DOMAIN before \cup DOMAIN after :
       LET kind == RecordKind(before, after, id)
           records == RecordsOf(changes, id)
       IN IF kind = "none" THEN records = {}
          ELSE /\ Cardinality(records) = 1
               /\ \A i \in records :
                    /\ changes[i].type = kind
                    /\ kind = "move" =>
                         /\ changes[i].oldPath = before[id].path
                         /\ changes[i].newPath = after[id].path
                         /\ changes[i].oldParentId = before[id].parentId
                         /\ changes[i].newParentId = after[id].parentId

C29_DiffIsExact ==
  \A s \in SnapshotsSeen, t \in SnapshotsSeen :
    DiffIsExact(s, t, generateDiff(s, t))

\* a diff with a file whose path and content both differ and a created node
C29_Witness ==
  \E s \in SnapshotsSeen, t \in SnapshotsSeen :
    /\ \E id \in DOMAIN s \cap DOMAIN t :
         /\ isFile(s[id]) /\ isFile(t[id])
         /\ s[id].path # t[id].path
         /\ s[id].content # t[id].content
    /\ DOMAIN t \ DOMAIN s # {}
    /\ Len(generateDiff(s, t)) = 2

(***************************************************************************)
(* C30: jumpToHistoryPoint(index) is bounds-checked.  For index < -1 or    *)
(* index >= the length of the log it returns false and changes neither the *)
(* cursor nor the node map; for 0 <= index < the length of the log it sets *)
(* the cursor to index and makes the node map equal to that entry's after  *)
(* snapshot; for index = -1 it sets the cursor to -1 and restores the      *)
(* state that existed before the first entry; the log entries are never    *)
(* changed by it.                                                          *)
(***************************************************************************)
C30_JumpIsBoundsChecked ==
  [][\A i \in -2..MaxHist :
       JumpToHistoryPoint(i) =>
         /\ LogValue(history') = LogValue(history)
         /\ (i < -1 \/ i >= Len(history)) =>
              /\ last' = "false"
              /\ currentIndex' = currentIndex
              /\ nodes' = nodes
         /\ (0 <= i /\ i < Len(history)) =>
              /\ last' = "true"
              /\ currentIndex' = i
              /\ nodes' = history[i + 1].afterSnapshot.m
         /\ (i = -1 /\ Len(history) > 0) =>
              /\ last' = "true"
              /\ currentIndex' = -1
              /\ nodes' = history[1].beforeSnapshot.m]_vars

\* C30 without the target -1 and without a jump to the entry under the cursor
C30_JumpElsewhereIsBoundsChecked ==
  [][\A i \in -2..MaxHist :
       (i # -1 /\ i # currentIndex /\ JumpToHistoryPoint(i)) =>
         /\ LogValue(history') = LogValue(history)
         /\ (i < -1 \/ i >= Len(history)) =>
              /\ last' = "false"
              /\ currentIndex' = currentIndex
              /\ nodes' = nodes
         /\ (0 <= i /\ i < Len(history)) =>
              /\ last' = "true"
              /\ currentIndex' = i
              /\ nodes' = history[i + 1].afterSnapshot.m]_vars

(***************************************************************************)
(* C31: repositioning is path-independent.  When every mutation goes       *)
(* through recordChange, for every index i in range, -1 included, the node *)
(* map after jumpToHistoryPoint(i) is the node map that undo() and redo()  *)
(* calls alone leave when they move the cursor to i.                       *)
(***************************************************************************)
\* the node map after the undo() or redo() calls that take the cursor to target
RECURSIVE NodesByUndoRedo(_, _, _, _)
NodesByUndoRedo(live, log, index, target) ==
  IF index = target THEN live
  ELSE LET r == IF index > target THEN undo(live, log, index) ELSE redo(live, log, index)
       IN NodesByUndoRedo(r.nodes, r.history, r.currentIndex, target)

C31_JumpEqualsUndoRedo ==
  \A i \in -1..(Len(history) - 1) :
    jumpToHistoryPoint(nodes, history, currentIndex, i).nodes
      = NodesByUndoRedo(nodes, history, currentIndex, i)

\* C31 without the target -1
C31_JumpToEntryEqualsUndoRedo ==
  \A i \in 0..(Len(history) - 1) :
    jumpToHistoryPoint(nodes, history, currentIndex, i).nodes
      = NodesByUndoRedo(nodes, history, currentIndex, i)

(***************************************************************************)
(*   SpecPaths  the functions of path-utils.ts called with every string of *)
(*              up to MaxPathLen characters over a separator, a backslash  *)
(*              and a letter                                               *)
(***************************************************************************)
PathChars == {PATH_SEPARATOR, BACKSLASH, "a"}

PathStrings == UNION {[1..n -> PathChars] : n \in 0..MaxPathLen}

InitPaths ==
  /\ nodes = InitialNodes
  /\ nextId = 1
  /\ history = <<>>
  /\ currentIndex = -1
  /\ last = "ok"
  /\ law = LawIdle
  /\ clock = 0
  /\ console = <<>>
  /\ autosave = NoAutosave
  /\ call \in {Call("none", <<p, q>>, <<>>) : p \in PathStrings, q \in PathStrings}

Calls(fn, ret) ==
  /\ call.fn = "none"
  /\ call' = Call(fn, call.args, ret)
  /\ UNCHANGED <<nodes, nextId, history, currentIndex, last, law, clock, console, autosave>>

NormalizePath == Calls("normalizePath", normalizePath(call.args[1]))

\* normalizePath called with what normalizePath returned
NormalizePathAgain ==
  /\ call.fn = "normalizePath"
  /\ call' = Call("normalizePath again", <<call.ret>>, normalizePath(call.ret))
  /\ UNCHANGED <<nodes, nextId, history, currentIndex, last, law, clock, console, autosave>>

JoinPath == Calls("joinPath", joinPath(call.args[1], call.args[2]))

IsSubPath == Calls("isSubPath", isSubPath(call.args[1], call.args[2]))

NextPaths == NormalizePath \/ NormalizePathAgain \/ JoinPath \/ IsSubPath

SpecPaths == InitPaths /\ [][NextPaths]_vars

\* normalized absolute form: one leading separator, then non-empty segments
\* with one separator between two of them and none at the end
IsNormalizedAbsolute(p) ==
  /\ p # <<>>
  /\ p[1] = PATH_SEPARATOR
  /\ \A i \in 1..Len(p) : IsSep(p[i]) =>
       /\ p[i] = PATH_SEPARATOR
       /\ i = Len(p) => i = 1
       /\ i < Len(p) => ~IsSep(p[i + 1])

(***************************************************************************)
(* C32: joinPath returns a path in normalized absolute form for every list *)
(* of segments, those with repeated separators inside them included: one   *)
(* leading separator, no empty segment, no trailing separator except for   *)
(* the root, so that normalizePath(joinPath(...)) = joinPath(...).         *)
(***************************************************************************)
C32_JoinPathIsNormalized ==
  call.fn = "joinPath" =>
    /\ IsNormalizedAbsolute(call.ret)
    /\ normalizePath(call.ret) = call.ret

\* C32 for segments that hold no separator except at their ends
InteriorSeparator(s) == \E i \in 1..Len(StripSeparators(s)) : IsSep(StripSeparators(s)[i])

C32_JoinPathOfPlainSegmentsIsNormalized ==
  (call.fn = "joinPath" /\ \A i \in 1..2 : ~InteriorSeparator(call.args[i])) =>
    /\ IsNormalizedAbsolute(call.ret)
    /\ normalizePath(call.ret) = call.ret

(***************************************************************************)
(* C33: normalizePath never fails and returns, for every input string, a   *)
(* path in normalized absolute form; the empty input gives the root; and   *)
(* normalizePath(normalizePath(p)) = normalizePath(p) for every p.         *)
(***************************************************************************)
C33_NormalizePathNormalizes ==
  /\ call.fn = "normalizePath" =>
       /\ IsNormalizedAbsolute(call.ret)
       /\ call.args[1] = <<>> => call.ret = ROOT_PATH
  /\ call.fn = "normalizePath again" => call.ret = call.args[1]

\* C33 for the inputs that begin with the separator
C33_NormalizePathOfAbsoluteNormalizes ==
  /\ (call.fn = "normalizePath" /\ StartsWith(call.args[1], ROOT_PATH)) =>
       IsNormalizedAbsolute(call.ret)
  /\ (call.fn = "normalizePath again" /\ StartsWith(call.args[1], ROOT_PATH)) =>
       call.ret = call.args[1]

(***************************************************************************)
(* C34: isSubPath(parent, child) is true if and only if child is strictly  *)
(* nested under parent, for every pair of paths, parent = root included:   *)
(* it is false whenever the two paths normalize to the same path, and true *)
(* exactly when the segments of parent are a proper prefix of the segments *)
(* of child.                                                               *)
(***************************************************************************)
ProperPrefix(s, t) == Len(s) < Len(t) /\ SubSeq(t, 1, Len(s)) = s

C34_IsSubPathIsStrictNesting ==
  call.fn = "isSubPath" =>
    /\ normalizePath(call.args[1]) = normalizePath(call.args[2]) => call.ret = FALSE
    /\ call.ret = ProperPrefix(SplitSegments(call.args[1]), SplitSegments(call.args[2]))

\* C34 for absolute paths and a parent other than the root
C34_IsSubPathBelowRootIsStrictNesting ==
  ( /\ call.fn = "isSubPath"
    /\ StartsWith(call.args[1], ROOT_PATH) /\ StartsWith(call.args[2], ROOT_PATH)
    /\ normalizePath(call.args[1]) # ROOT_PATH ) =>
    /\ normalizePath(call.args[1]) = normalizePath(call.args[2]) => call.ret = FALSE
    /\ call.ret = ProperPrefix(SplitSegments(call.args[1]), SplitSegments(call.args[2]))

(***************************************************************************)
(* zip-importer.ts: importZip.  An archive is the sequence of its file     *)
(* entries (the directory entries are filtered out), each a path and a     *)
(* text content.  What the loop carries: the node map, pathToNodeId, the   *)
(* next id, the console, and the error that ended the import, if any.      *)
(***************************************************************************)
CR == "\\r"
LF == "\\n"

\* content.replace(/\r\n/g, '\n').replace(/\r/g, '\n')
RECURSIVE normalizeLineEndings(_)
normalizeLineEndings(content) ==
  IF content = <<>> THEN <<>>
  ELSE IF content[1] = CR
  THEN <<LF>> \o normalizeLineEndings(
                   IF Len(content) > 1 /\ content[2] = LF
                   THEN SubSeq(content, 3, Len(content)) ELSE Tail(content))
  ELSE <<content[1]>> \o normalizeLineEndings(Tail(content))

basename(path) ==
  LET normalized == normalizePath(path)
  IN SubSeq(normalized, LastIndexOfSep(normalized) + 1, Len(normalized))

ZipEntry(path, content) == [path |-> path, content |-> content]

Importing(now) ==
  [nodes |-> (ROOT_ID :> [RootNode EXCEPT !.createdAt = now, !.updatedAt = now]),
   pathToNodeId |-> (ROOT_PATH :> ROOT_ID),
   nextId |-> 1, console |-> <<>>, err |-> "ok"]

\* nodes.set(node.id, node); pathToNodeId.set(node.path, node.id);
\* parentNode.children.push(node.id), a TypeError when the parent is a file
AddNode(st, type, name, path, parentId, content, size, now) ==
  LET node == [id |-> st.nextId, type |-> type, name |-> name, path |-> path,
               parentId |-> parentId, content |-> content, size |-> size,
               children |-> <<>>, createdAt |-> now, updatedAt |-> now]
      set == [st EXCEPT !.nodes = (st.nextId :> node) @@ st.nodes,
                        !.pathToNodeId = (path :> st.nextId) @@ st.pathToNodeId,
                        !.nextId = st.nextId + 1]
  IN IF isDirectory(st.nodes[parentId])
     THEN [set EXCEPT !.nodes[parentId].children = Append(@, st.nextId)]
     ELSE [set EXCEPT !.err = "TypeError"]

\* the loop of ensureParentDirectories from part k on
RECURSIVE ensureParentDirectoriesFrom(_, _, _, _, _)
ensureParentDirectoriesFrom(st, pathParts, k, currentPath, now) ==
  IF k > Len(pathParts) - 1 \/ st.err # "ok" THEN st
  ELSE LET part == pathParts[k]
           parentPath == IF currentPath = <<>> THEN ROOT_PATH ELSE currentPath
           nextPath == joinPath(currentPath, part)
       IN IF nextPath \in DOMAIN st.pathToNodeId
          THEN ensureParentDirectoriesFrom(st, pathParts, k + 1, nextPath, now)
          ELSE IF validateFileName(part) # "ok"
          THEN [st EXCEPT !.err = "InvalidDirectoryName"]
          ELSE IF parentPath \notin DOMAIN st.pathToNodeId
          THEN [st EXCEPT !.err = "ParentNotFound"]
          ELSE ensureParentDirectoriesFrom(
                 AddNode(st, "directory", part, nextPath, st.pathToNodeId[parentPath],
                         <<>>, 0, now),
                 pathParts, k + 1, nextPath, now)

ensureParentDirectories(st, filePath, now) ==
  ensureParentDirectoriesFrom(st, SplitSegments(filePath), 1, <<>>, now)

\* processZipEntry of entry i: an error of ensureParentDirectories leaves the
\* function, one of the rest is caught and logged
processZipEntry(st, i, entry, now) ==
  LET normalizedPath == normalizePath(<<PATH_SEPARATOR>> \o entry.path)
      ensured == ensureParentDirectories(st, normalizedPath, now)
      fileName == basename(normalizedPath)
      parentPath == dirname(normalizedPath)
  IN IF ensured.err # "ok" THEN ensured
     ELSE IF validateFileName(fileName) # "ok"
     THEN Warned(ensured, i, "Skipping invalid filename", validateFileName(fileName))
     ELSE IF parentPath \notin DOMAIN ensured.pathToNodeId
     THEN Warned(ensured, i, "Parent directory not found", "")
     ELSE LET added == AddNode(ensured, "file", fileName, normalizedPath,
                               ensured.pathToNodeId[parentPath],
                               normalizeLineEndings(entry.content), Len(entry.content),
                               now)
          IN IF added.err = "ok" THEN added
             ELSE Warned([added EXCEPT !.err = "ok"], i, "Failed to process file",
                         added.err)

RECURSIVE importZipFrom(_, _, _, _)
importZipFrom(st, files, i, now) ==
  IF i > Len(files) \/ st.err # "ok" THEN st
  ELSE importZipFrom(processZipEntry(st, i, files[i], now), files, i + 1, now)

\* importZip(zipFile): the project it resolves to, or the error it rejects with
importZip(files, now) == importZipFrom(Importing(now), files, 1, now)

(***************************************************************************)
(*   SpecZip    importZip called with every archive of up to MaxZipLen     *)
(*              entries of different paths                                 *)
(***************************************************************************)
ZipPaths ==
  {<<"a">>, <<"b">>, <<"a", "/", "a">>, <<"a", "/", "b">>, <<STAR, "/", "a">>,
   <<"a", "/", STAR>>, <<DOT, DOT, "/", "a">>, <<"b", "/", "a", "/", "a">>}

ZipContents == {<<"1">>, <<"1", CR, LF>>}

Archives ==
  {files \in UNION {[1..n -> {ZipEntry(p, c) : p \in ZipPaths, c \in ZipContents}] :
                      n \in 0..MaxZipLen} :
     \A i \in 1..Len(files), j \in 1..Len(files) : i # j => files[i].path # files[j].path}

InitZip ==
  /\ nodes = InitialNodes
  /\ nextId = 1
  /\ history = <<>>
  /\ currentIndex = -1
  /\ last = "ok"
  /\ law = LawIdle
  /\ clock = 0
  /\ console = <<>>
  /\ autosave = NoAutosave
  /\ call \in {Call("none", files, <<>>) : files \in Archives}

ImportZip ==
  /\ call.fn = "none"
  /\ call' = Call("importZip", call.args, importZip(call.args, clock))
  /\ UNCHANGED <<nodes, nextId, history, currentIndex, last, law, clock, console, autosave>>

NextZip == ImportZip

SpecZip == InitZip /\ [][NextZip]_vars

(***************************************************************************)
(* C35: ZIP import skips invalid entries instead of failing.  For every    *)
(* archive, an entry whose file name or one of whose directory segments    *)
(* fails validateFileName is skipped with a warning, importZip still       *)
(* returns a project, and every other entry is in that project as a file   *)
(* node at its normalized path.                                            *)
(***************************************************************************)
EntryPath(entry) == normalizePath(<<PATH_SEPARATOR>> \o entry.path)

EntryValid(entry) ==
  \A k \in 1..Len(SplitSegments(EntryPath(entry))) :
    validateFileName(SplitSegments(EntryPath(entry))[k]) = "ok"

FileAt(m, path) == \E id \in DOMAIN m : isFile(m[id]) /\ m[id].path = path

C35_ImportSkipsInvalidEntries ==
  call.fn = "importZip" =>
    /\ call.ret.err = "ok"
    /\ \A i \in 1..Len(call.args) :
         IF EntryValid(call.args[i])
         THEN FileAt(call.ret.nodes, EntryPath(call.args[i]))
         ELSE /\ ~FileAt(call.ret.nodes, EntryPath(call.args[i]))
              /\ \E k \in 1..Len(call.ret.console) :
                   call.ret.console[k].level = "warn" /\ call.ret.console[k].item = i

\* C35 for the archives whose directory segments are all valid names
DirectoriesValid(entry) ==
  \A k \in 1..(Len(SplitSegments(EntryPath(entry))) - 1) :
    validateFileName(SplitSegments(EntryPath(entry))[k]) = "ok"

C35_ImportSkipsInvalidFileNames ==
  (call.fn = "importZip" /\ \A i \in 1..Len(call.args) : DirectoriesValid(call.args[i])) =>
    /\ call.ret.err = "ok"
    /\ \A i \in 1..Len(call.args) :
         IF EntryValid(call.args[i])
         THEN FileAt(call.ret.nodes, EntryPath(call.args[i]))
         ELSE /\ ~FileAt(call.ret.nodes, EntryPath(call.args[i]))
              /\ \E k \in 1..Len(call.ret.console) :
                   call.ret.console[k].level = "warn" /\ call.ret.console[k].item = i

(***************************************************************************)
(* project-store.ts: setupAutosave and cleanup.  A pending timer is its id *)
(* and the time from which setTimeout may run its callback; the callback   *)
(* of a timer may run late, never early.                                   *)
(***************************************************************************)
AUTOSAVE_DELAY == 800

\* time passes in steps of half the delay
TimeStep == AUTOSAVE_DELAY \div 2

Timer(id, due) == [id |-> id, due |-> due]

\* clearTimeout(id)
clearTimeout(pending, id) == {t \in pending : t.id # id}

\* a new burst begins with a call the delay or more after the one before
BeginsBurst(a) == a.lastCall = NEVER \/ a.now - a.lastCall >= AUTOSAVE_DELAY

\* the scheduler without its clearTimeout
scheduleAutosaveKeepingTimer(a) ==
  [a EXCEPT !.timer = a.nextTimer,
            !.pending = a.pending \cup {Timer(a.nextTimer, a.now + AUTOSAVE_DELAY)},
            !.nextTimer = a.nextTimer + 1,
            !.lastCall = a.now,
            !.bursts = IF BeginsBurst(a) THEN a.bursts + 1 ELSE a.bursts]

\* scheduleAutosave(), the function setupAutosave returns
scheduleAutosave(a) ==
  LET cleared == IF a.timer # NO_TIMER THEN clearTimeout(a.pending, a.timer)
                 ELSE a.pending
  IN [a EXCEPT !.timer = a.nextTimer,
               !.pending = cleared \cup {Timer(a.nextTimer, a.now + AUTOSAVE_DELAY)},
               !.nextTimer = a.nextTimer + 1,
               !.lastCall = a.now,
               !.bursts = IF BeginsBurst(a) THEN a.bursts + 1 ELSE a.bursts]

\* the callback of timer t: saveProject and onChange when getProject()
\* returns a project
autosaveCallback(a, t, hasProject) ==
  [a EXCEPT !.pending = a.pending \ {t},
            !.saves = IF hasProject THEN a.saves + 1 ELSE a.saves,
            !.nulls = IF hasProject THEN a.nulls ELSE a.nulls + 1]

cleanup(a) ==
  IF a.timer # NO_TIMER
  THEN [a EXCEPT !.pending = clearTimeout(a.pending, a.timer), !.timer = NO_TIMER]
  ELSE a

AutosaveStep(a) ==
  /\ autosave' = a
  /\ UNCHANGED <<nodes, nextId, history, currentIndex, last, law, clock, console, call>>

ScheduleAutosave ==
  /\ autosave.nextTimer <= MaxTimers
  /\ AutosaveStep(scheduleAutosave(autosave))

TimerFires ==
  \E t \in autosave.pending, hasProject \in BOOLEAN :
    /\ t.due <= autosave.now
    /\ AutosaveStep(autosaveCallback(autosave, t, hasProject))

Cleanup ==
  /\ autosave.timer # NO_TIMER
  /\ AutosaveStep(cleanup(autosave))

TimePasses ==
  /\ autosave.now < MaxTicks * TimeStep
  /\ AutosaveStep([autosave EXCEPT !.now = autosave.now + TimeStep])

(***************************************************************************)
(*   SpecAutosave  calls of the scheduler and of cleanup while time passes *)
(*                 and the timers fire                                     *)
(***************************************************************************)
NextAutosave == ScheduleAutosave \/ TimerFires \/ Cleanup \/ TimePasses

SpecAutosave == Init /\ [][NextAutosave]_vars

(***************************************************************************)
(* C36: autosave is debounced.  Every call of the scheduler cancels the    *)
(* pending timer before it starts a new one, so at most one autosave is    *)
(* pending at any time; a burst of calls, each less than the delay of 800  *)
(* ms after the one before, causes exactly one saveProject; and that save  *)
(* happens only after the delay has elapsed since the last call of the     *)
(* burst.                                                                  *)
(***************************************************************************)
Saves == autosave'.saves = autosave.saves + 1

C36_AutosaveDebounced ==
  [][/\ Cardinality(autosave'.pending) <= 1
     /\ Saves => autosave.now - autosave.lastCall >= AUTOSAVE_DELAY
     /\ autosave'.saves <= autosave'.bursts
     /\ autosave'.bursts = autosave.bursts + 1 => autosave.saves = autosave.bursts]_vars

\* C36 as the code has it: a burst causes at most one saveProject, and
\* exactly one when its timer fires and getProject() returns a project
C36_AutosaveDebouncedAtMostOnce ==
  [][/\ Cardinality(autosave'.pending) <= 1
     /\ Saves => /\ autosave.now - autosave.lastCall >= AUTOSAVE_DELAY
                 /\ autosave'.pending = {}
     /\ autosave'.saves + autosave'.nulls <= autosave'.bursts]_vars

\* a burst of two calls, then its one save
C36_Witness ==
  /\ autosave.nextTimer = 3
  /\ autosave.bursts = 1
  /\ autosave.saves = 1
  /\ autosave.pending = {}

(***************************************************************************)
(* project-store.ts: duplicateProject.  newId is the number of the first   *)
(* id generateId() returns during the call.                                *)
(***************************************************************************)
IndexOf(seq, x) == CHOOSE i \in 1..Len(seq) : seq[i] = x

\* nodeIdMap after the first loop
nodeIdMapOf(original, newId) ==
  LET olds == SortedIds(DOMAIN original.nodes)
  IN [oldId \in DOMAIN original.nodes |-> newId + IndexOf(olds, oldId) - 1]

\* the second loop without the parentId assignment
relinkedNodeKeepingParent(node, newNode, nodeIdMap) ==
  LET known == SelectSeq(node.children, LAMBDA childId : childId \in DOMAIN nodeIdMap)
  IN [newNode EXCEPT
        !.children = IF isDirectory(node) /\ Len(node.children) > 0
                     THEN [i \in 1..Len(known) |-> nodeIdMap[known[i]]]
                     ELSE @]

\* the node the first loop makes of node
duplicatedNode(node, id, now) ==
  [node EXCEPT !.id = id, !.createdAt = now, !.updatedAt = now,
               !.children = <<>>]

\* the node after the second loop
relinkedNode(node, newNode, nodeIdMap) ==
  LET known == SelectSeq(node.children, LAMBDA childId : childId \in DOMAIN nodeIdMap)
  IN [newNode EXCEPT
        !.parentId = IF node.parentId # NULL_ID
                     THEN IF node.parentId \in DOMAIN nodeIdMap
                          THEN nodeIdMap[node.parentId] ELSE NULL_ID
                     ELSE @,
        !.children = IF isDirectory(node) /\ Len(node.children) > 0
                     THEN [i \in 1..Len(known) |-> nodeIdMap[known[i]]]
                     ELSE @]

duplicateProject(db, id, newName, newId, now) ==
  LET loaded == loadProject(db, id, now)
      original == loaded.project
  IN IF original = NO_PROJECT
     THEN [project |-> NO_PROJECT, db |-> loaded.db, nextId |-> newId]
     ELSE LET nodeIdMap == nodeIdMapOf(original, newId)
              count == Cardinality(DOMAIN original.nodes)
              duplicatedNodes ==
                [fresh \in {nodeIdMap[oldId] : oldId \in DOMAIN original.nodes} |->
                   LET oldId == CHOOSE o \in DOMAIN original.nodes : nodeIdMap[o] = fresh
                   IN relinkedNode(original.nodes[oldId],
                                   duplicatedNode(original.nodes[oldId], fresh, now),
                                   nodeIdMap)]
              duplicated ==
                Project(generateId(newId + count), newName, original.description,
                        IF original.rootId \in DOMAIN nodeIdMap
                        THEN nodeIdMap[original.rootId] ELSE NULL_ID,
                        duplicatedNodes, now, now, now)
          IN [project |-> duplicated, db |-> saveProject(loaded.db, duplicated),
              nextId |-> newId + count + 1]

COPY_NAME == <<"c">>

(***************************************************************************)
(* C37: duplicateProject returns a project whose tree is isomorphic to the *)
(* original under a one-to-one mapping from the old node ids to fresh      *)
(* ones: it has as many nodes, its rootId is the image of the original's,  *)
(* every node's parentId and children list, in order, are the images of    *)
(* the original's, its name, path, type and content are equal, and no id   *)
(* of the copy occurs in the original.                                     *)
(***************************************************************************)
Image(f, id) == IF id \in DOMAIN f THEN f[id] ELSE id

IsCopyUnder(f, original, copy) ==
  /\ {f[id] : id \in DOMAIN f} = DOMAIN copy.nodes
  /\ \A a \in DOMAIN f, b \in DOMAIN f : f[a] = f[b] => a = b
  /\ original.rootId \in DOMAIN f
  /\ copy.rootId = f[original.rootId]
  /\ \A id \in DOMAIN f :
       LET old == original.nodes[id]
           new == copy.nodes[f[id]]
       IN /\ new.id = f[id]
          /\ new.parentId = (IF old.parentId = NULL_ID THEN NULL_ID ELSE f[old.parentId])
          /\ Len(new.children) = Len(old.children)
          /\ \A i \in 1..Len(old.children) :
               old.children[i] \in DOMAIN f /\ new.children[i] = f[old.children[i]]
          /\ new.name = old.name /\ new.path = old.path
          /\ new.type = old.type /\ new.content = old.content

IsIsomorphicCopy(original, copy) ==
  /\ copy # NO_PROJECT
  /\ Cardinality(DOMAIN copy.nodes) = Cardinality(DOMAIN original.nodes)
  /\ DOMAIN copy.nodes \cap DOMAIN original.nodes = {}
  /\ \E f \in [DOMAIN original.nodes -> DOMAIN copy.nodes] : IsCopyUnder(f, original, copy)

Duplicate(p) ==
  duplicateProject(saveProject(EmptyStore, p), p.id, COPY_NAME, nextId, clock).project

C37_DuplicateOfRootedIsIsomorphic ==
  \A p \in Projects(nodes, clock) :
    p.rootId \in DOMAIN p.nodes => IsIsomorphicCopy(p, Duplicate(p))

=============================================================================
